---- MODULE Spec2Model ----
(***************************************************************************)
(* A model of abvio's validation and dispatch layer: k-points mode         *)
(* normalisation, the k-points variant models and their realisation        *)
(* (kpoints.py), structure-model construction and realisation              *)
(* (structure.py, validate.py), species expansion                          *)
(* (structure.format_species), the per-site property assignment and the    *)
(* shape classifiers (incar.py) and the Input aggregator (io.py).          *)
(*                                                                         *)
(* Python strings whose characters the code inspects are sequences of      *)
(* one-character strings; a Python call is one action, and its result is   *)
(* a record [ok, val, err]: ok = FALSE means the call raised err.          *)
(***************************************************************************)
EXTENDS Integers, Sequences, FiniteSets, TLC

VARIABLES
    k_pc,      \* kpoints: "idle" | "start" | "done"
    k_in,      \* kpoints: the mode string handed to BaseKpoints.check_mode
    k_ret,     \* kpoints: what check_mode returned or raised
    s_pc,      \* structure: "idle" | "start" | "built" | "failed" | "accessed"
    s_in,      \* structure: the structure section of the input document
    s_call,    \* structure: the entry point that validated the section
    s_model,   \* structure: the validated model, or what validation raised
    s_res,     \* structure: what model.structure returned or raised
    f_pc,      \* format_species: "idle" | "start" | "done"
    f_in,      \* format_species: its argument
    f_ret,     \* format_species: what it returned or raised
    c_in,      \* classifiers: the property entry, or "idle"
    c_index,   \* classifiers: what is_index_dict(c_in) returned or raised
    c_species, \* classifiers: what is_species_dict(c_in) returned or raised
    c_range,   \* classifiers: what is_range_list(c_in) returned or raised
    c_collinear, \* classifiers: what is_collinear(c_in) returned or raised
    p_pc,      \* kpoints models: "idle" | "start" | "built" | "failed" | "realised"
    p_in,      \* kpoints models: the kpoints section of the input document
    p_call,    \* kpoints models: the entry point called on the section
    p_struct,  \* kpoints models: whether the caller supplied a structure
    p_model,   \* kpoints models: the validated model, or what validation raised
    p_req,     \* kpoints models: what model.requires_structure returned
    p_res,     \* kpoints models: what realising the model returned or raised
    a_pc,      \* site properties: "idle" | "assign" | "read" | "range" | "ranged" | "done"
    a_sites,   \* site properties: the sites of the structure, in order
    a_prev,    \* site properties: the sites before the last call
    a_op,      \* site properties: the last call and its arguments
    a_ret,     \* site properties: what the last call returned or raised
    a_log,     \* site properties: the sites selected, the property and the value
               \* of each call so far
    i_pc,      \* Input: "idle" | "document" | "ready" | "accessed"
    i_doc,     \* Input: the input document, section by section
    i_new,     \* Input: what Input(i_doc) returned or raised
    i_acc,     \* Input: the property accessed or function called
    i_arg,     \* Input: whether kpoints_from_dictionary was given a structure
    i_calls,   \* Input: the resolvers the access called, in order
    i_res,     \* Input: what the access returned or raised
    m_pc,      \* incar formatting: "idle" | "start" | "done"
    m_sites,   \* incar formatting: the sites of the structure passed, before the call
    m_dict,    \* incar formatting: the incar mapping passed, before the call
    m_missing, \* incar formatting: the default for a site no entry selects
    m_call,    \* incar formatting: the function called
    m_ret,     \* incar formatting: what the call returned or raised
    m_after,   \* incar formatting: the sites of the structure after the call
    m_kept,    \* incar formatting: the incar mapping passed, after the call
    j_pc,      \* scheduler: "idle" | "start" | "done"
    j_sched,   \* scheduler: the scheduler name
    j_dict,    \* scheduler: the directive mapping passed to Job
    j_params,  \* scheduler: the job parameters passed, before the call
    j_extra,   \* scheduler: the extra parameters passed
    j_call,    \* scheduler: the function called
    j_ret,     \* scheduler: what the call returned or raised
    j_after,   \* scheduler: the job parameters passed, after the call
    j_job,     \* scheduler: the job object created, if any
    q_pc,      \* structure checker: "idle" | "checker"
    q_atoms,   \* structure checker: the atoms of the structure checked
    q_messages, \* structure checker: self.messages
    q_ret,     \* structure checker: what the last check_positions returned
    q_calls,   \* structure checker: the number of calls of check_positions
    v_pc,      \* validate: "idle" | "start" | "done"
    v_in,      \* validate: the keys of the structure input set
    v_ret,     \* validate: what validate_internal_mode returned or raised
    d_pc,      \* accesses: "idle" | "ready"
    d_doc,     \* accesses: the input document, never changed
    d_env,     \* accesses: what the database finds, the sites generated, the fit of magmom
    d_heap,    \* accesses: the Structure objects built so far
    d_hist,    \* accesses: the accesses made and what each returned
    w_pc,      \* write_inputs: "idle" | the block to run | "done" | "failed"
    w_doc,     \* write_inputs: the input document
    w_env,     \* write_inputs: the database, the generator, the fit of magmom, the directory
    w_files,   \* write_inputs: the files written, in order
    w_res,     \* write_inputs: the outcome of the last block
    w_at       \* write_inputs: the last block run

kvars == <<k_pc, k_in, k_ret>>
svars == <<s_pc, s_in, s_call, s_model, s_res>>
fvars == <<f_pc, f_in, f_ret>>
cvars == <<c_in, c_index, c_species, c_range, c_collinear>>
pvars == <<p_pc, p_in, p_call, p_struct, p_model, p_req, p_res>>
avars == <<a_pc, a_sites, a_prev, a_op, a_ret, a_log>>
ivars == <<i_pc, i_doc, i_new, i_acc, i_arg, i_calls, i_res>>
mvars == <<m_pc, m_sites, m_dict, m_missing, m_call, m_ret, m_after, m_kept>>
jvars == <<j_pc, j_sched, j_dict, j_params, j_extra, j_call, j_ret, j_after, j_job>>
qvars == <<q_pc, q_atoms, q_messages, q_ret, q_calls>>
vvars == <<v_pc, v_in, v_ret>>
dvars == <<d_pc, d_doc, d_env, d_heap, d_hist>>
wvars == <<w_pc, w_doc, w_env, w_files, w_res, w_at>>
vars == <<kvars, svars, fvars, cvars, pvars, avars, ivars, mvars, jvars, qvars, vvars, dvars, wvars>>

\* the variables of every component but one
notK == <<svars, fvars, cvars, pvars, avars, ivars, mvars, jvars, qvars, vvars, dvars, wvars>>
notS == <<kvars, fvars, cvars, pvars, avars, ivars, mvars, jvars, qvars, vvars, dvars, wvars>>
notF == <<kvars, svars, cvars, pvars, avars, ivars, mvars, jvars, qvars, vvars, dvars, wvars>>
notC == <<kvars, svars, fvars, pvars, avars, ivars, mvars, jvars, qvars, vvars, dvars, wvars>>
notP == <<kvars, svars, fvars, cvars, avars, ivars, mvars, jvars, qvars, vvars, dvars, wvars>>
notA == <<kvars, svars, fvars, cvars, pvars, ivars, mvars, jvars, qvars, vvars, dvars, wvars>>
notI == <<kvars, svars, fvars, cvars, pvars, avars, mvars, jvars, qvars, vvars, dvars, wvars>>
notM == <<kvars, svars, fvars, cvars, pvars, avars, ivars, jvars, qvars, vvars, dvars, wvars>>
notJ == <<kvars, svars, fvars, cvars, pvars, avars, ivars, mvars, qvars, vvars, dvars, wvars>>
notQ == <<kvars, svars, fvars, cvars, pvars, avars, ivars, mvars, jvars, vvars, dvars, wvars>>
notV == <<kvars, svars, fvars, cvars, pvars, avars, ivars, mvars, jvars, qvars, dvars, wvars>>
notD == <<kvars, svars, fvars, cvars, pvars, avars, ivars, mvars, jvars, qvars, vvars, wvars>>
notW == <<kvars, svars, fvars, cvars, pvars, avars, ivars, mvars, jvars, qvars, vvars, dvars>>

(***************************************************************************)
(* Bounds of the model.                                                    *)
(***************************************************************************)
MaxModeLen == 4
MaxSModeLen == 3
MaxCodeLen == 5
MaxSpeciesLen == 2
MaxCoords == 3
MaxListLen == 3
MaxEntryLen == 2
MaxSpacing == 2
MaxVector == 3
MaxPaths == 3
MaxSites == 3
MaxOps == 2
MaxNodes == 2
GridSize == 2
MaxAtoms == 3
MaxChecks == 2
MaxAccesses == 3

(***************************************************************************)
(* Strings.                                                                *)
(***************************************************************************)
UpperSeq == <<"A","B","C","D","E","F","G","H","I","J","K","L","M",
              "N","O","P","Q","R","S","T","U","V","W","X","Y","Z">>
LowerSeq == <<"a","b","c","d","e","f","g","h","i","j","k","l","m",
              "n","o","p","q","r","s","t","u","v","w","x","y","z">>

\* str.lower() on one character
ToLower(c) ==
    IF \E i \in 1..Len(UpperSeq) : UpperSeq[i] = c
    THEN LowerSeq[CHOOSE i \in 1..Len(UpperSeq) : UpperSeq[i] = c]
    ELSE c

\* str.upper() on one character
ToUpper(c) ==
    IF \E i \in 1..Len(LowerSeq) : LowerSeq[i] = c
    THEN UpperSeq[CHOOSE i \in 1..Len(LowerSeq) : LowerSeq[i] = c]
    ELSE c

\* str.lower()
lower(s) == [i \in 1..Len(s) |-> ToLower(s[i])]

\* str.upper()
upper(s) == [i \in 1..Len(s) |-> ToUpper(s[i])]

\* str.startswith(p)
startswith(s, p) == Len(s) >= Len(p) /\ SubSeq(s, 1, Len(p)) = p

\* every string over the alphabet A of length at most n
StringsUpTo(A, n) == UNION { [1..m -> A] : m \in 0..n }

\* a string, its upper-case form and its capitalised form
CaseVariants(s) ==
    { s, upper(s), [i \in 1..Len(s) |-> IF i = 1 THEN ToUpper(s[i]) ELSE s[i]] }

\* every prefix of s, and s followed by one more character of A
Neighbours(s, A) ==
    { SubSeq(s, 1, m) : m \in 0..Len(s) } \cup { Append(s, c) : c \in A }

\* results of a call
Ok(v) == [ok |-> TRUE, val |-> v, err |-> "none"]
Raise(e) == [ok |-> FALSE, val |-> <<>>, err |-> e]
NoResult == [ok |-> FALSE, val |-> <<>>, err |-> "not called"]

(***************************************************************************)
(* kpoints.py                                                              *)
(***************************************************************************)
S_gamma == <<"g","a","m","m","a">>
S_monkhorst == <<"m","o","n","k","h","o","r","s","t">>
S_surface == <<"s","u","r","f","a","c","e">>
S_line == <<"l","i","n","e">>
S_autoline == <<"a","u","t","o","l","i","n","e">>
S_monkhorst_pack == S_monkhorst \o <<"-","p","a","c","k">>
S_xyz == <<"x","y","z">>

KCanonical == {S_gamma, S_monkhorst, S_surface, S_line, S_autoline}

\* BaseKpoints.check_mode with the lower() calls dropped
check_mode_kp_nolower(mode) ==
    IF startswith(mode, <<"g">>) THEN Ok(S_gamma)
    ELSE IF startswith(mode, <<"m">>) THEN Ok(S_monkhorst)
    ELSE IF mode = S_surface THEN Ok(S_surface)
    ELSE IF startswith(mode, S_line) THEN Ok(S_line)
    ELSE IF mode = S_autoline THEN Ok(S_autoline)
    ELSE Raise("ValueError: Invalid mode")

\* BaseKpoints.check_mode
check_mode_kp(mode) ==
    IF startswith(lower(mode), <<"g">>) THEN Ok(S_gamma)
    ELSE IF startswith(lower(mode), <<"m">>) THEN Ok(S_monkhorst)
    ELSE IF lower(mode) = S_surface THEN Ok(S_surface)
    ELSE IF startswith(lower(mode), S_line) THEN Ok(S_line)
    ELSE IF lower(mode) = S_autoline THEN Ok(S_autoline)
    ELSE Raise("ValueError: Invalid mode")

KAlphabet == {"g", "m", "l", "i", "n", "e", "G"}

\* the mode strings tried: the canonical tags, their case variants, prefixes and
\* one-character extensions, the spec's examples, and every short string
KModeInputs ==
    StringsUpTo(KAlphabet, MaxModeLen)
    \cup UNION { CaseVariants(s) : s \in KCanonical \cup {S_monkhorst_pack, S_xyz} }
    \cup UNION { Neighbours(s, {"s", "-", "x"}) : s \in KCanonical }

(***************************************************************************)
(* structure.py: values of the structure section                           *)
(***************************************************************************)
\* One key of the section holding a string: absent, null (None) or a string.
Absent == [k |-> "absent", v |-> <<>>]
Null == [k |-> "null", v |-> <<>>]
Str(s) == [k |-> "str", v |-> s]
\* a model field left at its default None
None == [k |-> "none", v |-> <<>>]

\* bool(value) of a key that is present; a model field None is falsy
Truthy(f) == f.k \in {"str", "list"} /\ f.v # <<>>

\* One element of a species list: a string, a number or a mapping given as its
\* items in insertion order, each item [kt, k, vt, v]: the key's type and text, the
\* value's type and number.
SStr(sym) == [t |-> "str", s |-> sym, n |-> 0, items |-> <<>>]
SInt(n) == [t |-> "int", s |-> "", n |-> n, items |-> <<>>]
SDict(items) == [t |-> "dict", s |-> "", n |-> 0, items |-> items]
Item(kt, k, vt, v) == [kt |-> kt, k |-> k, vt |-> vt, v |-> v]
\* a Python value handed over as a species list
PyList(v) == [k |-> "list", v |-> v]
PyOther(kind) == [k |-> kind, v |-> <<>>]

S_external == <<"e","x","t","e","r","n","a","l">>
S_prototype == <<"p","r","o","t","o","t","y","p","e">>
S_manual == <<"m","a","n","u","a","l">>
S_ext == <<"e","x","t">>
S_pro == <<"p","r","o">>
S_mp == <<"m","p","-">>

\* the files and POSCAR texts of the environment that pymatgen's Poscar parses
PoscarFiles == { <<"P">> }
PoscarStrings == { <<"S">> }

\* is_valid_poscar_file (structure.py): Poscar.from_file succeeds
is_valid_poscar_file(filepath) == filepath \in PoscarFiles

\* is_valid_poscar_string (structure.py): Poscar.from_str succeeds
is_valid_poscar_string(poscar_string) == poscar_string \in PoscarStrings

\* str.isdigit(): non-empty and every character a digit
Digits == {"0", "1", "2", "3", "4", "5", "6", "7", "8", "9"}
isdigit(s) == Len(s) >= 1 /\ \A i \in 1..Len(s) : s[i] \in Digits

\* code[3:]
From4(s) == IF Len(s) <= 3 THEN <<>> ELSE SubSeq(s, 4, Len(s))

\* validate.is_valid_mp_code
is_valid_mp_code(code) == startswith(code, S_mp) \/ isdigit(code)

\* ExternalStructure.check_code accepts the code (it raises otherwise)
check_code(code) == ~(~startswith(code, S_mp) \/ ~isdigit(From4(code)))

\* BaseStructure.check_mode with a fall-through to manual
check_mode_st_default(mode) ==
    IF startswith(lower(mode), S_ext) THEN Ok(S_external)
    ELSE IF startswith(lower(mode), S_pro) THEN Ok(S_prototype)
    ELSE Ok(S_manual)

\* BaseStructure.check_mode
check_mode_st(mode) ==
    IF startswith(lower(mode), S_ext) THEN Ok(S_external)
    ELSE IF startswith(lower(mode), S_pro) THEN Ok(S_prototype)
    ELSE IF lower(mode) = S_manual THEN Ok(S_manual)
    ELSE Raise("ValueError: Invalid mode")

\* [x] * n: n copies of x, none when n <= 0
Repeat(x, n) == [i \in 1..(IF n > 0 THEN n ELSE 0) |-> x]

\* format_species, the checking loop over a list whose first element is a mapping:
\* the first exception it raises, "none" when it passes
RECURSIVE species_check(_)
species_check(v) ==
    IF v = <<>> THEN "none"
    ELSE LET d == Head(v)
         IN  IF d.t # "dict" THEN "AttributeError: no attribute keys"
             ELSE IF ~(\A i \in 1..Len(d.items) : d.items[i].kt = "str")
             THEN "ValueError: Keys in species dictionary must be strings"
             ELSE IF ~(\A i \in 1..Len(d.items) : d.items[i].vt = "int")
             THEN "ValueError: Values in species dictionary must be integers"
             ELSE species_check(Tail(v))

\* format_species, the expanding loop: the first item of each mapping, repeated
RECURSIVE species_expand(_)
species_expand(v) ==
    IF v = <<>> THEN Ok(<<>>)
    ELSE LET d == Head(v)
             rest == species_expand(Tail(v))
         IN  IF d.items = <<>> THEN Raise("StopIteration")
             ELSE IF ~rest.ok THEN rest
             ELSE Ok(Repeat(SStr(d.items[1].k), d.items[1].v) \o rest.val)

\* format_species
format_species(species) ==
    IF species.k # "list" THEN Raise("ValueError: Species must be a list")
    ELSE IF species.v = <<>> THEN Raise("IndexError: list index out of range")
    ELSE IF species.v[1].t = "dict"
    THEN IF species_check(species.v) # "none"
         THEN Raise(species_check(species.v))
         ELSE species_expand(species.v)
    ELSE IF species.v[1].t = "str" THEN Ok(species.v)
    ELSE Raise("ValueError: Species must be a list of dictionaries or a list of strings")

(***************************************************************************)
(* structure.py: the pydantic models                                       *)
(***************************************************************************)
ValidPrototypes ==
    { <<"f","c","c">>, <<"b","c","c">>, <<"h","c","p">>,
      <<"d","i","a","m","o","n","d">>, <<"r","o","c","k","s","a","l","t">>,
      <<"p","e","r","o","v","s","k","i","t","e">>, <<"c","s","c","l">>,
      <<"f","l","u","o","r","i","t","e">>,
      <<"a","n","t","i","f","l","u","o","r","i","t","e">>,
      <<"z","i","n","c","b","l","e","n","d","e">> }

\* the model object: its class and its fields after validation
Model(cls, mode, file, string, code, species, coords, lattice, prototype) ==
    [cls |-> cls, mode |-> mode, file |-> file, string |-> string, code |-> code,
     species |-> species, coords |-> coords, lattice |-> lattice,
     prototype |-> prototype]
NoModel == Model("none", <<>>, None, None, None, <<>>, <<>>, "none", None)

\* the outcome of a validation: the model, or the first error raised
\* (by: the class whose validation produced it)
Built(m) == [ok |-> TRUE, m |-> m, err |-> "none", by |-> m.cls]
Failed(by, e) == [ok |-> FALSE, m |-> NoModel, err |-> e, by |-> by]
NotBuilt == Failed("none", "not called")

\* pydantic on the field mode: str, then check_mode; the default is not validated
mode_field(d, default) ==
    IF d.mode.k = "absent"
    THEN IF default = <<>> THEN Raise("ValidationError: mode: Field required")
         ELSE Ok(default)
    ELSE IF d.mode.k = "null"
    THEN Raise("ValidationError: mode: Input should be a valid string")
    ELSE check_mode_st(d.mode.v)

\* pydantic on species: list[str] | list[dict[str, int]] (ManualStructure)
species_typed_manual(sp) ==
    /\ sp.k = "list"
    /\ \/ \A i \in 1..Len(sp.v) : sp.v[i].t = "str"
       \/ \A i \in 1..Len(sp.v) :
            /\ sp.v[i].t = "dict"
            /\ \A j \in 1..Len(sp.v[i].items) :
                 sp.v[i].items[j].kt = "str" /\ sp.v[i].items[j].vt = "int"

\* pydantic on species: list[str] | list[dict] (PrototypeStructure)
species_typed_prototype(sp) ==
    /\ sp.k = "list"
    /\ \/ \A i \in 1..Len(sp.v) : sp.v[i].t = "str"
       \/ \A i \in 1..Len(sp.v) : sp.v[i].t = "dict"

\* ExternalStructure.check_external: some value of the raw section is truthy
check_external(values) ==
    \/ Truthy(values.mode) \/ Truthy(values.file) \/ Truthy(values.string)
    \/ Truthy(values.code) \/ Truthy(values.species) \/ Truthy(values.coords)
    \/ values.lattice # "absent" \/ Truthy(values.prototype)

\* ExternalStructure.validate(d)
validate_external(d) ==
    LET mode == mode_field(d, S_external)
    IN  IF ~check_external(d)
        THEN Failed("ExternalStructure", "ValueError: Must provide either file, string, or code")
        ELSE IF ~mode.ok THEN Failed("ExternalStructure", mode.err)
        ELSE IF d.file.k = "null"
        THEN Failed("ExternalStructure", "ValidationError: file: Input should be a valid string")
        ELSE IF d.file.k = "str" /\ ~is_valid_poscar_file(d.file.v)
        THEN Failed("ExternalStructure", "ValueError: Invalid POSCAR file")
        ELSE IF d.string.k = "null"
        THEN Failed("ExternalStructure", "ValidationError: string: Input should be a valid string")
        ELSE IF d.string.k = "str" /\ ~is_valid_poscar_string(d.string.v)
        THEN Failed("ExternalStructure", "ValueError: Invalid POSCAR string")
        ELSE IF d.code.k = "null"
        THEN Failed("ExternalStructure", "ValidationError: code: Input should be a valid string")
        ELSE IF d.code.k = "str" /\ ~check_code(d.code.v)
        THEN Failed("ExternalStructure", "ValueError: Invalid Materials Project code")
        ELSE Built(Model("ExternalStructure", mode.val,
                         IF d.file.k = "str" THEN d.file ELSE None,
                         IF d.string.k = "str" THEN d.string ELSE None,
                         IF d.code.k = "str" THEN d.code ELSE None,
                         <<>>, <<>>, "none", None))

\* ManualStructure.validate(d)
validate_manual(d) ==
    LET mode == mode_field(d, S_manual)
        species == format_species(d.species)
    IN  IF ~mode.ok THEN Failed("ManualStructure", mode.err)
        ELSE IF d.lattice = "absent"
        THEN Failed("ManualStructure", "ValidationError: lattice: Field required")
        ELSE IF d.coords.k = "absent"
        THEN Failed("ManualStructure", "ValidationError: coords: Field required")
        ELSE IF d.species.k = "absent"
        THEN Failed("ManualStructure", "ValidationError: species: Field required")
        ELSE IF ~species_typed_manual(d.species)
        THEN Failed("ManualStructure", "ValidationError: species: Input should be a valid list")
        ELSE IF ~species.ok THEN Failed("ManualStructure", species.err)
        ELSE Built(Model("ManualStructure", mode.val, None, None, None,
                         species.val, d.coords.v, "Lattice", None))

\* PrototypeStructure.validate(d)
validate_prototype(d) ==
    LET mode == mode_field(d, S_prototype)
        species == format_species(d.species)
    IN  IF ~mode.ok THEN Failed("PrototypeStructure", mode.err)
        ELSE IF d.species.k = "absent"
        THEN Failed("PrototypeStructure", "ValidationError: species: Field required")
        ELSE IF ~species_typed_prototype(d.species)
        THEN Failed("PrototypeStructure", "ValidationError: species: Input should be a valid list")
        ELSE IF ~species.ok THEN Failed("PrototypeStructure", species.err)
        ELSE IF d.lattice # "dict"
        THEN Failed("PrototypeStructure", "ValidationError: lattice: Input should be a valid dictionary")
        ELSE IF d.prototype.k # "str"
        THEN Failed("PrototypeStructure", "ValidationError: prototype: Input should be a valid string")
        ELSE IF d.prototype.v \notin ValidPrototypes
        THEN Failed("PrototypeStructure", "ValueError: Prototype is not implemented")
        ELSE Built(Model("PrototypeStructure", mode.val, None, None, None,
                         species.val, <<>>, "dict", d.prototype))

\* mode_model_map.get(mode).validate(d)
validate_variant(mode, d) ==
    IF mode = S_manual THEN validate_manual(d)
    ELSE IF mode = S_prototype THEN validate_prototype(d)
    ELSE IF mode = S_external THEN validate_external(d)
    ELSE Failed("none", "AttributeError: NoneType has no attribute validate")

\* structure_model_from_input_dict
structure_model_from_input_dict(structure_dictionary) ==
    LET base == mode_field(structure_dictionary, <<>>)
    IN  IF ~base.ok THEN Failed("BaseStructure", base.err)
        ELSE validate_variant(base.val, structure_dictionary)

(***************************************************************************)
(* structure.py: realising the structure                                   *)
(***************************************************************************)
Site(sym, xyz) == [species |-> sym, coords |-> xyz]

\* pymatgen's Structure(lattice, species, coords): one site per species entry
Structure(species, coords) ==
    [i \in 1..Len(species) |-> Site(species[i].s, coords[i])]

\* what the collaborators read from a POSCAR file, a POSCAR text or the database
ParsedSites == <<Site("Ca", <<0, 0, 0>>)>>

\* structure_from_lattice raising only when coordinates are missing
structure_from_lattice_fewer(lattice, species, coords) ==
    IF lattice \notin {"list", "Lattice"}
    THEN Raise("ValueError: Lattice must be a Lattice object or array")
    ELSE IF Len(coords) < Len(species)
    THEN Raise("ValueError: Number of species and coordinates must be the same")
    ELSE Ok(Structure(species, coords))

\* structure_from_lattice
structure_from_lattice(lattice, species, coords) ==
    IF lattice \notin {"list", "Lattice"}
    THEN Raise("ValueError: Lattice must be a Lattice object or array")
    ELSE IF Len(coords) # Len(species)
    THEN Raise("ValueError: Number of species and coordinates must be the same")
    ELSE Ok(Structure(species, coords))

\* ExternalStructure.structure without its final else branch
external_structure_no_else(m, found) ==
    IF Truthy(m.file) /\ Truthy(m.string) /\ Truthy(m.code)
    THEN Raise("ValueError: Must provide only one of file, string, or code")
    ELSE IF Truthy(m.code) /\ ~Truthy(m.file) /\ ~Truthy(m.string) /\ ~found
    THEN Raise("ValueError: Could not find structure with code")
    ELSE Ok(ParsedSites)

\* ExternalStructure.structure; found: the database holds the code
external_structure(m, found) ==
    IF Truthy(m.file) /\ Truthy(m.string) /\ Truthy(m.code)
    THEN Raise("ValueError: Must provide only one of file, string, or code")
    ELSE IF Truthy(m.file) THEN Ok(ParsedSites)
    ELSE IF Truthy(m.string) THEN Ok(ParsedSites)
    ELSE IF Truthy(m.code)
    THEN IF found THEN Ok(ParsedSites)
         ELSE Raise("ValueError: Could not find structure with code")
    ELSE Raise("ValueError: Must provide either file, string, or code")

\* ManualStructure.structure
manual_structure(m) == structure_from_lattice(m.lattice, m.species, m.coords)

\* PrototypeStructure.structure: Structure.from_prototype places n sites
prototype_structure(m, n) ==
    IF m.species = <<>> THEN Raise("ValueError: from_prototype: no species")
    ELSE Ok([i \in 1..n |-> Site(m.species[((i - 1) % Len(m.species)) + 1].s, <<i, 0, 0>>)])

(***************************************************************************)
(* incar.py: the shape classifiers of a per-site property entry            *)
(***************************************************************************)
\* A Python value given as a property entry: a mapping (its items in order), a
\* list (its elements in order) or anything else. A value of a mapping or of a
\* range is [vt, len]: its type and, for a list, its length. An item of a mapping
\* is [kt, k, val]. An element of a list is [et, keys, val]: its type, the keys it
\* holds (for a string: the words it contains) and what element["value"] is.
Val(vt, len) == [vt |-> vt, len |-> len]
Scalar == Val("float", 0)
Vec(n) == Val("list", n)
EItem(kt, k, val) == [kt |-> kt, k |-> k, val |-> val]
Elem(et, keys, val) == [et |-> et, keys |-> keys, val |-> val]
PyDict(items) == [t |-> "dict", v |-> items]
PySeq(elems) == [t |-> "list", v |-> elems]
PyScalar(kind) == [t |-> kind, v |-> <<>>]

\* isinstance(value, (int, float))
is_number(val) == val.vt \in {"int", "float"}

\* isinstance(value, (int, float, list))
is_number_or_list(val) == val.vt \in {"int", "float", "list"}

\* is_range_dict: "start" in x and "stop" in x and "value" in x; the operator in
\* is a key test on a mapping, a substring test on a string and a TypeError on a
\* number
is_range_dict(range_dict) ==
    IF range_dict.et \notin {"dict", "str"}
    THEN Raise("TypeError: argument of type int is not iterable")
    ELSE Ok({"start", "stop", "value"} \subseteq range_dict.keys)

\* is_range_list: the list comprehension calls is_range_dict on every element
is_range_list(range_list) ==
    IF range_list.t # "list" THEN Ok(FALSE)
    ELSE IF \E i \in 1..Len(range_list.v) : ~is_range_dict(range_list.v[i]).ok
    THEN Raise("TypeError: argument of type int is not iterable")
    ELSE Ok(\A i \in 1..Len(range_list.v) : is_range_dict(range_list.v[i]).val)

\* is_species_dict
is_species_dict(species_dict) ==
    IF species_dict.t # "dict" THEN Ok(FALSE)
    ELSE Ok(/\ \A i \in 1..Len(species_dict.v) : is_number_or_list(species_dict.v[i].val)
            /\ \A i \in 1..Len(species_dict.v) : species_dict.v[i].kt = "str")

\* is_index_dict
is_index_dict(index_dict) ==
    IF index_dict.t # "dict" THEN Ok(FALSE)
    ELSE Ok(/\ \A i \in 1..Len(index_dict.v) : is_number_or_list(index_dict.v[i].val)
            /\ \A i \in 1..Len(index_dict.v) : index_dict.v[i].kt = "int")

FormatError == "ValueError: Magnetic moments is improperly formatted"

\* is_collinear
is_collinear(magmom_entry) ==
    IF is_index_dict(magmom_entry).val \/ is_species_dict(magmom_entry).val
    THEN IF \A i \in 1..Len(magmom_entry.v) : is_number(magmom_entry.v[i].val)
         THEN Ok(TRUE)
         ELSE IF \A i \in 1..Len(magmom_entry.v) : magmom_entry.v[i].val.vt = "list"
         THEN Ok(FALSE)
         ELSE Raise(FormatError)
    ELSE IF ~is_range_list(magmom_entry).ok THEN is_range_list(magmom_entry)
    ELSE IF is_range_list(magmom_entry).val
    THEN IF \E i \in 1..Len(magmom_entry.v) : magmom_entry.v[i].et = "str"
         THEN Raise("TypeError: string indices must be integers")
         ELSE IF \A i \in 1..Len(magmom_entry.v) : is_number(magmom_entry.v[i].val)
         THEN Ok(TRUE)
         ELSE IF \A i \in 1..Len(magmom_entry.v) : magmom_entry.v[i].val.vt = "list"
         THEN Ok(FALSE)
         ELSE Raise(FormatError)
    ELSE Raise(FormatError)

(***************************************************************************)
(* The inputs tried                                                        *)
(***************************************************************************)
Section(mode, file, string, code, species, coords, lattice, prototype) ==
    [mode |-> mode, file |-> file, string |-> string, code |-> code,
     species |-> species, coords |-> coords, lattice |-> lattice,
     prototype |-> prototype]

CoordsOf(n) == [i \in 1..n |-> <<i, 0, 0>>]

SAlphabet == {"e", "x", "t", "p", "r", "o"}

SModeInputs ==
    StringsUpTo(SAlphabet, MaxSModeLen)
    \cup UNION { CaseVariants(s) : s \in {S_external, S_prototype, S_manual} }
    \cup UNION { Neighbours(s, {"s", "x"}) :
                   s \in {S_ext, S_pro, S_external, S_prototype, S_manual} }
    \cup { <<"i","n","t","e","r","n","a","l">>, <<"w","r","o","n","g">> }

NaCl == PyList(<<SStr("Na"), SStr("Cl")>>)

\* sections that differ in their mode, each with the fields of one variant
ModeFamily ==
    { Section(m, Str(<<"P">>), Absent, Absent, Absent, Absent, "absent", Absent) :
        m \in {Absent, Null} \cup { Str(s) : s \in SModeInputs } }
    \cup { Section(m, Absent, Absent, Absent, NaCl, PyList(CoordsOf(2)), "list", Absent) :
        m \in {Absent, Null} \cup { Str(s) : s \in SModeInputs } }
    \cup { Section(m, Absent, Absent, Absent, NaCl, Absent, "dict",
                   Str(<<"r","o","c","k","s","a","l","t">>)) :
        m \in {Absent, Null} \cup { Str(s) : s \in SModeInputs } }

\* external sections: every combination of absent, null, empty, valid and invalid
ExternalFamily ==
    { Section(m, f, s, c, Absent, Absent, "absent", Absent) :
        m \in {Absent, Str(S_external), Str(upper(S_ext))},
        f \in {Absent, Null, Str(<<>>), Str(<<"P">>), Str(<<"X">>)},
        s \in {Absent, Null, Str(<<>>), Str(<<"S">>), Str(<<"X">>)},
        c \in {Absent, Null, Str(<<>>), Str(<<"m","p","-","1">>)} }

CodeAlphabet == {"m", "p", "-", "1"}

\* external sections that give a database code only
CodeFamily ==
    { Section(Str(S_external), Absent, Absent, Str(c), Absent, Absent, "absent", Absent) :
        c \in StringsUpTo(CodeAlphabet, MaxCodeLen) \cup { <<"1","2","3","4">>,
              <<"m","p","-","1","2","3","4">>, <<"m","p","-","a","b","c">>,
              <<"M","P","-","1">>, <<"m","p","1">> } }

SpeciesElems ==
    { SStr("Na"), SStr("Cl"),
      SDict(<<Item("str", "Na", "int", 2)>>), SDict(<<Item("str", "Cl", "int", 1)>>),
      SDict(<<Item("str", "O", "int", 0)>>),
      SDict(<<Item("str", "Na", "int", 1), Item("str", "Cl", "int", 2)>>) }

\* manual sections: species as symbols or as counts, any number of coordinates
ManualFamily ==
    { Section(m, Absent, Absent, Absent, sp, co, la, Absent) :
        m \in {Absent, Str(S_manual)},
        sp \in {Absent} \cup { PyList(v) : v \in StringsUpTo(SpeciesElems, MaxSpeciesLen) },
        co \in {Absent} \cup { PyList(CoordsOf(n)) : n \in 0..MaxCoords },
        la \in {"absent", "list", "dict"} }

SInputs == ModeFamily \cup ExternalFamily \cup CodeFamily \cup ManualFamily

FElems ==
    { SStr("Fe"), SStr("O"), SInt(2),
      SDict(<<Item("str", "Fe", "int", 2)>>), SDict(<<Item("str", "O", "int", 4)>>),
      SDict(<<Item("str", "Fe", "int", 0)>>), SDict(<<Item("int", "4", "int", 0)>>),
      SDict(<<Item("str", "Fe", "float", 1)>>), SDict(<<>>),
      SDict(<<Item("str", "Fe", "int", 1), Item("str", "O", "int", 2)>>) }

\* arguments of format_species: lists of symbols, numbers and mappings, and values
\* that are no list
FInputs ==
    { PyList(v) : v \in StringsUpTo(FElems, MaxListLen) }
    \cup { PyOther("str"), PyOther("int"), PyOther("set"), PyOther("dict") }

EValues == { Val("int", 0), Scalar, Vec(3), Vec(2), Val("str", 0) }
EKeys == { <<"int", "0">>, <<"int", "1">>, <<"str", "Ti">>, <<"str", "O">> }
EItems == { EItem(k[1], k[2], val) : k \in EKeys, val \in EValues }

EElems ==
    { Elem("dict", {"start", "stop", "value"}, Scalar),
      Elem("dict", {"start", "stop", "step", "value"}, Vec(3)),
      Elem("dict", {"start", "stop", "value"}, Vec(2)),
      Elem("dict", {"start", "stop", "value"}, Val("str", 0)),
      Elem("dict", {"start", "stop"}, Val("none", 0)),
      Elem("str", {}, Val("none", 0)),
      Elem("str", {"start", "stop", "value"}, Val("none", 0)),
      Elem("int", {}, Val("none", 0)) }

\* property entries: mappings with distinct keys, lists, and other values
CInputs ==
    { PyDict(v) : v \in { w \in StringsUpTo(EItems, MaxEntryLen) :
          \A i, j \in 1..Len(w) : w[i].k = w[j].k => i = j } }
    \cup { PySeq(v) : v \in StringsUpTo(EElems, MaxEntryLen) }
    \cup { PyScalar("int"), PyScalar("str"), PyScalar("none") }

FIdle == f_pc = "idle" /\ f_in = PyOther("none") /\ f_ret = NoResult

CIdle ==
    /\ c_in = PyScalar("idle")
    /\ c_index = NoResult /\ c_species = NoResult
    /\ c_range = NoResult /\ c_collinear = NoResult

(***************************************************************************)
(* The structure section: validation, then realisation                     *)
(***************************************************************************)
SIdle ==
    /\ s_pc = "idle" /\ s_call = "none" /\ s_model = NotBuilt /\ s_res = NoResult
    /\ s_in = Section(Absent, Absent, Absent, Absent, Absent, Absent, "absent", Absent)

KIdle == k_pc = "idle" /\ k_in = <<>> /\ k_ret = NoResult

(***************************************************************************)
(* kpoints.py: the variant models                                          *)
(***************************************************************************)
\* A number of the section, its value held in tenths: the int n, the float
\* tenths/10.
PInt(n) == [t |-> "int", v |-> 10 * n]
PFloat(tenths) == [t |-> "float", v |-> tenths]
\* a key of the section holding a number, and that number
PNum(x) == [k |-> "num", v |-> <<x>>]
num(f) == f.v[1]

\* pydantic on int: an int, or a float without fractional part
int_lax(x) == x.t = "int" \/ x.v % 10 = 0
to_int(x) == [t |-> "int", v |-> x.v]
to_float(x) == [t |-> "float", v |-> x.v]

\* BaseKpoints.check_spacing: the error it raises, "none" when it returns
check_spacing(spacing) ==
    IF spacing.k = "num"
    THEN IF num(spacing).v < 0
         THEN "Spacing must be a non-negative integer"
         ELSE "none"
    ELSE IF spacing.k = "list"
    THEN IF Len(spacing.v) # 3
         THEN "Spacing must have 3 elements"
         ELSE IF \E i \in 1..Len(spacing.v) : spacing.v[i].v < 0
              THEN "Spacings must be all non-negative integer"
              ELSE "none"
    ELSE "Invalid spacing"

\* pydantic on a field annotated IntArray3D = Tuple[int, int, int]
tuple3_typed(f) ==
    f.k = "list" /\ Len(f.v) = 3 /\ \A i \in 1..3 : int_lax(f.v[i])
to_tuple3(f) == PyList([i \in 1..Len(f.v) |-> to_int(f.v[i])])

\* pydantic on BaseKpoints.spacing: int | float | IntArray3D | IterableNumeric,
\* then check_spacing; a result Ok(value) or Raise(error)
spacing_base(f) ==
    IF f.k \notin {"num", "list"}
    THEN Raise(IF f.k = "absent" THEN "Field required" ELSE "Input should be a number or a list")
    ELSE IF check_spacing(f) # "none" THEN Raise(check_spacing(f)) ELSE Ok(f)

\* pydantic on GammaKpoints.spacing and MonkhorstKpoints.spacing: IntArray3D,
\* then the inherited check_spacing
spacing_tuple3(f) ==
    IF f.k = "absent" THEN Raise("Field required")
    ELSE IF ~tuple3_typed(f) THEN Raise("Input should be a valid tuple of 3 integers")
    ELSE IF check_spacing(to_tuple3(f)) # "none" THEN Raise(check_spacing(to_tuple3(f)))
    ELSE Ok(to_tuple3(f))

\* pydantic on LineKpoints.spacing and AutoLineKpoints.spacing: int, then the
\* inherited check_spacing
spacing_int(f) ==
    IF f.k = "absent" THEN Raise("Field required")
    ELSE IF f.k # "num" \/ ~int_lax(num(f)) THEN Raise("Input should be a valid integer")
    ELSE IF check_spacing(PNum(to_int(num(f)))) # "none"
         THEN Raise(check_spacing(PNum(to_int(num(f)))))
    ELSE Ok(PNum(to_int(num(f))))

\* pydantic on SurfaceKpoints.spacing: float, then the inherited check_spacing
spacing_float(f) ==
    IF f.k = "absent" THEN Raise("Field required")
    ELSE IF f.k # "num" THEN Raise("Input should be a valid number")
    ELSE IF check_spacing(PNum(to_float(num(f)))) # "none"
         THEN Raise(check_spacing(PNum(to_float(num(f)))))
    ELSE Ok(PNum(to_float(num(f))))

\* pydantic on shift: IntArray3D = [0, 0, 0]
shift_field(f) ==
    IF f.k = "absent" THEN Ok(PyList(<<PInt(0), PInt(0), PInt(0)>>))
    ELSE IF ~tuple3_typed(f) THEN Raise("Input should be a valid tuple of 3 integers")
    ELSE Ok(to_tuple3(f))

\* pydantic on BaseKpoints.mode: str, then check_mode; a variant's default is
\* not validated
mode_field_kp(f, default) ==
    IF f.k = "absent"
    THEN IF default = <<>> THEN Raise("Field required") ELSE Ok(default)
    ELSE IF f.k # "str" THEN Raise("Input should be a valid string")
    ELSE check_mode_kp(f.v)

\* LineKpoints.check_paths without the test of the number of paths
check_paths_any_number(f) ==
    IF f.k = "absent" THEN Raise("Field required")
    ELSE IF f.k # "list" THEN Raise("Input should be a valid list")
    ELSE IF \E i \in 1..Len(f.v) : Len(f.v[i]) # 3
    THEN Raise("Tuple should have 3 items")
    ELSE Ok(f)

\* LineKpoints.check_paths, after pydantic on Matrix3D: a list of 3-tuples of
\* numbers
check_paths(f) ==
    IF f.k = "absent" THEN Raise("Field required")
    ELSE IF f.k # "list" THEN Raise("Input should be a valid list")
    ELSE IF \E i \in 1..Len(f.v) : Len(f.v[i]) # 3
    THEN Raise("Tuple should have 3 items")
    ELSE IF Len(f.v) < 2 THEN Raise("Invalid paths")
    ELSE IF \E i \in 1..Len(f.v) : Len(f.v[i]) # 3 THEN Raise("Invalid path")
    ELSE Ok(f)

\* LineKpoints.check_labels, after pydantic on List[str]
check_labels(f) ==
    IF f.k = "absent" THEN Raise("Field required")
    ELSE IF f.k # "list" THEN Raise("Input should be a valid list")
    ELSE IF \E i \in 1..Len(f.v) : f.v[i].t # "str"
    THEN Raise("Input should be a valid string")
    ELSE IF Len(f.v) < 2 THEN Raise("Number of labels must be greater than 1")
    ELSE IF \E i \in 1..Len(f.v) : f.v[i].t # "str" THEN Raise("Invalid label")
    ELSE Ok(f)

\* a validated k-points model; a field its class does not declare is None
KpModel(cls, mode, spacing, shift, paths, labels) ==
    [cls |-> cls, mode |-> mode, spacing |-> spacing, shift |-> shift,
     paths |-> paths, labels |-> labels]
NoKpModel == KpModel("none", <<>>, None, None, None, None)

\* the outcome of a validation: the model, or pydantic's ValidationError with
\* the error of every field that failed (by: the class that was validated)
KpBuilt(m) == [ok |-> TRUE, m |-> m, err |-> "none", errors |-> {}, by |-> m.cls]
KpFailed(by, errors) ==
    [ok |-> FALSE, m |-> NoKpModel, err |-> "ValidationError", errors |-> errors,
     by |-> by]
KpNotBuilt ==
    [ok |-> FALSE, m |-> NoKpModel, err |-> "not called", errors |-> {}, by |-> "none"]

KpVariants ==
    {"GammaKpoints", "MonkhorstKpoints", "SurfaceKpoints", "LineKpoints",
     "AutoLineKpoints"}

\* the default of the field mode in each class
mode_default(cls) ==
    CASE cls = "GammaKpoints" -> S_gamma
      [] cls = "MonkhorstKpoints" -> S_monkhorst
      [] cls = "SurfaceKpoints" -> S_surface
      [] cls = "LineKpoints" -> S_line
      [] cls = "AutoLineKpoints" -> S_autoline
      [] OTHER -> <<>>

\* cls.validate(d): every declared field is validated, the other keys ignored
validate_kp(cls, d) ==
    LET mode == mode_field_kp(d.mode, mode_default(cls))
        spacing ==
            CASE cls \in {"GammaKpoints", "MonkhorstKpoints"} -> spacing_tuple3(d.spacing)
              [] cls = "SurfaceKpoints" -> spacing_float(d.spacing)
              [] cls \in {"LineKpoints", "AutoLineKpoints"} -> spacing_int(d.spacing)
              [] OTHER -> spacing_base(d.spacing)
        shift == IF cls \in {"GammaKpoints", "MonkhorstKpoints"}
                 THEN shift_field(d.shift) ELSE Ok(None)
        paths == IF cls = "LineKpoints" THEN check_paths(d.paths) ELSE Ok(None)
        labels == IF cls = "LineKpoints" THEN check_labels(d.labels) ELSE Ok(None)
        errors ==
            (IF mode.ok THEN {} ELSE {<<"mode", mode.err>>})
            \cup (IF spacing.ok THEN {} ELSE {<<"spacing", spacing.err>>})
            \cup (IF shift.ok THEN {} ELSE {<<"shift", shift.err>>})
            \cup (IF paths.ok THEN {} ELSE {<<"paths", paths.err>>})
            \cup (IF labels.ok THEN {} ELSE {<<"labels", labels.err>>})
    IN  IF errors = {}
        THEN KpBuilt(KpModel(cls, mode.val, spacing.val, shift.val, paths.val,
                             labels.val))
        ELSE KpFailed(cls, errors)

\* mode_model_map of kpoints_model_from_dictionary
mode_model_map(mode) ==
    CASE mode = S_gamma -> "GammaKpoints"
      [] mode = S_monkhorst -> "MonkhorstKpoints"
      [] mode = S_surface -> "SurfaceKpoints"
      [] mode = S_line -> "LineKpoints"
      [] mode = S_autoline -> "AutoLineKpoints"

\* kpoints_model_from_dictionary
kpoints_model_from_dictionary(d) ==
    LET base_model == validate_kp("BaseKpoints", d)
    IN  IF ~base_model.ok THEN base_model
        ELSE validate_kp(mode_model_map(base_model.m.mode), d)

\* BaseKpoints.requires_structure, true for the line mode as well
requires_structure_line(m) == m.mode \in {S_surface, S_autoline, S_line}

\* BaseKpoints.requires_structure
requires_structure(m) == m.mode \in {S_surface, S_autoline}

\* zip(paths, labels): pairs up to the shorter of the two
zip(a, b) ==
    [i \in 1..(IF Len(a) < Len(b) THEN Len(a) ELSE Len(b)) |->
        [path |-> a[i], label |-> b[i].s]]

\* the sampling description pymatgen builds
Sampling(style, spacing, points) ==
    [style |-> style, spacing |-> spacing, points |-> points]

\* LineKpoints.kpoints without the comparison of the lengths
line_kpoints_unchecked(m) ==
    Ok(Sampling("Line_mode", m.spacing, zip(m.paths.v, m.labels.v)))

\* LineKpoints.kpoints
line_kpoints(m) ==
    IF Len(m.paths.v) # Len(m.labels.v)
    THEN Raise("ValueError: Dimensions of labels and paths do not match")
    ELSE Ok(Sampling("Line_mode", m.spacing, zip(m.paths.v, m.labels.v)))

\* model.kpoints() of the classes that need no structure
kpoints_plain(m) ==
    CASE m.cls = "GammaKpoints" -> Ok(Sampling("Gamma", m.spacing, <<>>))
      [] m.cls = "MonkhorstKpoints" -> Ok(Sampling("Monkhorst", m.spacing, <<>>))
      [] m.cls = "LineKpoints" -> line_kpoints(m)
      [] OTHER -> Raise("TypeError: kpoints() missing 1 required positional argument")

\* model.kpoints(structure) of the classes that take one; the other classes take
\* at most a coordinate system
kpoints_with_structure(m) ==
    CASE m.cls = "SurfaceKpoints" -> Ok(Sampling("Automatic", m.spacing, <<>>))
      [] m.cls = "AutoLineKpoints" -> Ok(Sampling("Line_mode", m.spacing, <<>>))
      [] OTHER -> Raise("TypeError: kpoints() got an unexpected argument")

\* kpoints_from_dictionary(d, structure); has_structure: structure is not None
kpoints_from_dictionary(d, has_structure) ==
    LET KpointsModel == kpoints_model_from_dictionary(d)
    IN  IF ~KpointsModel.ok THEN Raise(KpointsModel.err)
        ELSE IF requires_structure(KpointsModel.m)
        THEN IF ~has_structure THEN Raise("ValueError: Kpoints model requires a structure")
             ELSE kpoints_with_structure(KpointsModel.m)
        ELSE kpoints_plain(KpointsModel.m)

\* the kpoints section of the input document
KpSection(mode, spacing, shift, paths, labels) ==
    [mode |-> mode, spacing |-> spacing, shift |-> shift, paths |-> paths,
     labels |-> labels]

\* the modes tried: each tag, a short and a long spelling, and a wrong one
PModes ==
    { Str(s) : s \in KCanonical \cup {<<"G">>, S_monkhorst_pack, upper(S_autoline), S_xyz} }
    \cup {Absent}

\* the numbers tried: the ints of -1..MaxSpacing and floats with and without a
\* fractional part
PNumbers ==
    { PInt(n) : n \in -1..MaxSpacing } \cup { PFloat(1), PFloat(10), PFloat(-5) }

\* the components tried in a spacing vector
PComponents == { PInt(1), PInt(-1), PFloat(15) }

PSpacings ==
    { PNum(x) : x \in PNumbers }
    \cup { PyList(v) : v \in StringsUpTo(PComponents, MaxVector) }
    \cup { PyList(<<PInt(0), PInt(0), PInt(0)>>), PyList(<<PFloat(10), PInt(2), PInt(1)>>),
           Absent, Null }

PShifts == { Absent, PyList(<<PInt(0), PInt(0), PInt(0)>>), PyList(<<PInt(1), PInt(1)>>) }

\* path points (coordinates in tenths) and labels
P_G == <<0, 0, 0>>
P_X == <<5, 5, 5>>
PPathElems == { P_G, P_X, <<0, 0>> }
PLabelElems == { SStr("G"), SStr("X"), SInt(7) }
PPaths == { PyList(v) : v \in StringsUpTo(PPathElems, MaxPaths) } \cup {Absent}
PLabels == { PyList(v) : v \in StringsUpTo(PLabelElems, MaxPaths) } \cup {Absent}

\* every mode with every spacing, with and without a path
ModeSpacingFamily ==
    { KpSection(m, sp, sh, pl[1], pl[2]) :
        m \in PModes, sp \in PSpacings, sh \in PShifts,
        pl \in { <<Absent, Absent>>,
                 <<PyList(<<P_G, P_X>>), PyList(<<SStr("G"), SStr("X")>>)>> } }

\* the line mode with every list of paths and of labels
LineFamily ==
    { KpSection(Str(S_line), PNum(PInt(1)), Absent, p, l) : p \in PPaths, l \in PLabels }

PInputs == ModeSpacingFamily \cup LineFamily

PIdle ==
    /\ p_pc = "idle" /\ p_call = "none" /\ p_struct = FALSE
    /\ p_in = KpSection(Absent, Absent, Absent, Absent, Absent)
    /\ p_model = KpNotBuilt /\ p_req = NoResult /\ p_res = NoResult

(***************************************************************************)
(* incar.py: per-site properties of a structure                            *)
(***************************************************************************)
\* the number of sites of the fluorite cell of the tests
FluoriteSites == 12

\* site.properties: a property is unset (<<>>) or holds one value (<<v>>)
NoProps == [magmom |-> <<>>, charge |-> <<>>]
PropertyNames == {"magmom", "charge"}

\* the sites of a structure built from a list of species, no property set
SitesOf(species) == [i \in 1..Len(species) |-> [species |-> species[i], props |-> NoProps]]

\* site.properties[property_name] = property_value
set_property(site, property_name, property_value) ==
    [site EXCEPT !.props[property_name] = <<property_value>>]

\* assign_site_property_by_species setting the property on every site
assign_site_property_to_all(sites, species, property_name, property_value) ==
    Ok([i \in 1..Len(sites) |-> set_property(sites[i], property_name, property_value)])

\* assign_site_property_by_species
assign_site_property_by_species(sites, species, property_name, property_value) ==
    Ok([i \in 1..Len(sites) |->
          IF sites[i].species = species
          THEN set_property(sites[i], property_name, property_value)
          ELSE sites[i]])

\* sites[index] of a Python list of n sites: the 1-based position, 0 when the
\* index is out of range; a negative index counts from the end
list_position(index, n) ==
    IF index >= 0 /\ index < n THEN index + 1
    ELSE IF index < 0 /\ index >= -n THEN index + n + 1
    ELSE 0

\* assign_site_property_by_index
assign_site_property_by_index(sites, index, property_name, property_value) ==
    LET pos == list_position(index, Len(sites))
    IN  IF pos = 0 THEN Raise("IndexError: list index out of range")
        ELSE Ok([i \in 1..Len(sites) |->
                   IF i = pos
                   THEN set_property(sites[i], property_name, property_value)
                   ELSE sites[i]])

\* A bound of a slice: None (<<>>) or an integer (<<n>>).
NoneValue == <<>>
IntValue(n) == <<n>>
slice(start, stop, step) == [start |-> start, stop |-> stop, step |-> step]

Max2(a, b) == IF a > b THEN a ELSE b
Min2(a, b) == IF a < b THEN a ELSE b

\* slice.indices(n) of Python: the step, and start and stop brought into the list
slice_step(range) == IF range.step = NoneValue THEN 1 ELSE range.step[1]
slice_bound(bound, n, step, default_low) ==
    LET low == IF step < 0 THEN -1 ELSE 0
        high == IF step < 0 THEN n - 1 ELSE n
    IN  IF bound = NoneValue
        THEN IF default_low = (step > 0) THEN low ELSE high
        ELSE IF bound[1] < 0 THEN Max2(bound[1] + n, low)
        ELSE Min2(bound[1], high)

\* the 0-based indices of sites[range]
slice_indices(range, n) ==
    LET step == slice_step(range)
        start == slice_bound(range.start, n, step, TRUE)
        stop == slice_bound(range.stop, n, step, FALSE)
    IN  IF step > 0
        THEN { i \in 0..(n - 1) : i >= start /\ i < stop /\ (i - start) % step = 0 }
        ELSE { i \in 0..(n - 1) : i <= start /\ i > stop /\ (start - i) % (-step) = 0 }

\* assign_site_property_by_range taking every site from start on
assign_site_property_from_start(sites, range, property_name, property_value) ==
    IF slice_step(range) = 0 THEN Raise("ValueError: slice step cannot be zero")
    ELSE Ok([i \in 1..Len(sites) |->
               IF (i - 1) \in slice_indices(slice(range.start, NoneValue, range.step),
                                            Len(sites))
               THEN set_property(sites[i], property_name, property_value)
               ELSE sites[i]])

\* assign_site_property_by_range
assign_site_property_by_range(sites, range, property_name, property_value) ==
    IF slice_step(range) = 0 THEN Raise("ValueError: slice step cannot be zero")
    ELSE Ok([i \in 1..Len(sites) |->
               IF (i - 1) \in slice_indices(range, Len(sites))
               THEN set_property(sites[i], property_name, property_value)
               ELSE sites[i]])

\* What a call that reads the structure returns, and the sites as it leaves them.
ReadResult(properties, sites) ==
    [ok |-> TRUE, val |-> properties, err |-> "none", sites |-> sites]

\* site.properties.get(property_name, default): the value held, or the default
\* (None is <<>>)
properties_get(site, property_name, default) ==
    IF site.props[property_name] = <<>> THEN default ELSE site.props[property_name]

\* site_properties_from_structure storing the default on the sites it finds unset
site_properties_setdefault(sites, property_name, default) ==
    ReadResult([i \in 1..Len(sites) |-> properties_get(sites[i], property_name, default)],
               [i \in 1..Len(sites) |->
                  [sites[i] EXCEPT !.props[property_name] =
                      properties_get(sites[i], property_name, default)]])

\* site_properties_from_structure
site_properties_from_structure(sites, property_name, default) ==
    ReadResult([i \in 1..Len(sites) |-> properties_get(sites[i], property_name, default)],
               sites)

\* the operation last called on the structure
NoOp == [kind |-> "none", species |-> "", index |-> 0,
         range |-> slice(NoneValue, NoneValue, NoneValue), name |-> "", value |-> 0,
         default |-> NoneValue]
BySpecies(species, name, value) ==
    [NoOp EXCEPT !.kind = "species", !.species = species, !.name = name, !.value = value]
ByIndex(index, name, value) ==
    [NoOp EXCEPT !.kind = "index", !.index = index, !.name = name, !.value = value]
ByRange(range, name, value) ==
    [NoOp EXCEPT !.kind = "range", !.range = range, !.name = name, !.value = value]
Read(name, default) ==
    [NoOp EXCEPT !.kind = "read", !.name = name, !.default = default]

\* the structures tried: every list of at most MaxSites species, and a fluorite
\* cell of FluoriteSites sites
ASpecies == {"Fe", "O"}
AStructures == { SitesOf(sp) : sp \in StringsUpTo(ASpecies, MaxSites) }
Fluorite == SitesOf([i \in 1..FluoriteSites |-> IF i <= 4 THEN "Ca" ELSE "F"])
AValues == {1, 2}
\* the defaults tried: None and 0
ADefaults == { NoneValue, IntValue(0) }
AIndices == -(MaxSites + 1)..(MaxSites + 1)
\* the slices tried on a structure of n sites
ABounds(n) ==
    IF n = FluoriteSites THEN { IntValue(0), IntValue(1), IntValue(FluoriteSites) }
    ELSE { NoneValue } \cup { IntValue(i) : i \in -1..(MaxSites + 1) }
ASteps(n) ==
    IF n = FluoriteSites THEN { NoneValue, IntValue(2) }
    ELSE { NoneValue, IntValue(2), IntValue(-1), IntValue(0) }

AIdle ==
    /\ a_pc = "idle" /\ a_sites = <<>> /\ a_prev = <<>> /\ a_op = NoOp
    /\ a_ret = NoResult /\ a_log = <<>>

(***************************************************************************)
(* incar.py: formatting the magmom entry of the incar mapping              *)
(***************************************************************************)
\* A magnetic moment: a number or a vector, with the type and length the shape
\* checks look at.
MScalar(x) == [vt |-> "float", len |-> 0, v |-> <<x>>]
MVector(v) == [vt |-> "list", len |-> Len(v), v |-> v]

\* An item of an index map (its key the index n) or of a species map, and a range
\* of a range list: a mapping holding start, stop, value and perhaps step, or a
\* string.
MIndexItem(n, val) == [kt |-> "int", k |-> ToString(n), n |-> n, val |-> val]
MSpeciesItem(k, val) == [kt |-> "str", k |-> k, n |-> 0, val |-> val]
MRange(start, stop, step, val) ==
    [et |-> "dict",
     keys |-> {"start", "stop", "value"} \cup (IF step = NoneValue THEN {} ELSE {"step"}),
     val |-> val, start |-> start, stop |-> stop, step |-> step]
MText(words) ==
    [et |-> "str", keys |-> words, val |-> MScalar(0), start |-> 0, stop |-> 0,
     step |-> NoneValue]

\* A value of the incar mapping: a tag value, a magmom entry (PyDict, PySeq) or
\* the per-site list the formatting puts in its place.
Tag(n) == [t |-> "int", v |-> <<[n |-> n]>>]
Magmoms(list) == [t |-> "magmoms", list |-> list]
PyNone == [t |-> "none", v |-> <<>>]

\* the keys of the incar mapping
K_magmom == <<"m", "a", "g", "m", "o", "m">>
K_Magmom == <<"M", "a", "g", "m", "o", "m">>
K_nsw == <<"n", "s", "w">>
K_Nsw == <<"N", "s", "w">>

\* A mapping is the sequence of its items [k, val] in insertion order.
KeyValue(k, val) == [k |-> k, val |-> val]
has_key(d, k) == \E i \in 1..Len(d) : d[i].k = k
position(d, k) == CHOOSE i \in 1..Len(d) : d[i].k = k

\* d.get(k)
dict_get(d, k) == IF has_key(d, k) THEN d[position(d, k)].val ELSE PyNone

\* d.pop(k) of a key that is present: the mapping that is left
dict_pop(d, k) == SubSeq(d, 1, position(d, k) - 1) \o SubSeq(d, position(d, k) + 1, Len(d))

\* d[k] = val: a key that is present keeps its place
dict_set(d, k, val) ==
    IF has_key(d, k) THEN [d EXCEPT ![position(d, k)].val = val]
    ELSE Append(d, KeyValue(k, val))

\* bool(value)
truthy(value) ==
    CASE value.t \in {"dict", "list"} -> value.v # <<>>
      [] value.t = "magmoms" -> value.list # <<>>
      [] value.t = "int" -> value.v[1].n # 0
      [] OTHER -> FALSE

\* the mapping {key.upper(): value} built item by item from d.items()
RECURSIVE upper_keys(_, _)
upper_keys(acc, d) ==
    IF d = <<>> THEN acc
    ELSE upper_keys(dict_set(acc, upper(Head(d).k), Head(d).val), Tail(d))

\* the structure as a loop over the entry leaves it, and the error that ended it
Assigned(sites) == [ok |-> TRUE, err |-> "none", sites |-> sites]
Stopped(e, sites) == [ok |-> FALSE, err |-> e, sites |-> sites]

\* one pass of a loop of format_magnetic_moments
assign_one(sites, kind, x) ==
    CASE kind = "index" -> assign_site_property_by_index(sites, x.n, "magmom", x.val)
      [] kind = "species" -> assign_site_property_by_species(sites, x.k, "magmom", x.val)
      [] kind = "range" ->
            IF x.et = "str" THEN Raise("TypeError: string indices must be integers")
            ELSE assign_site_property_by_range(
                     sites, slice(IntValue(x.start), IntValue(x.stop), x.step),
                     "magmom", x.val)

\* a loop of format_magnetic_moments: the sites assigned so far stay assigned
\* when a pass raises
RECURSIVE assign_each(_, _, _)
RECURSIVE assign_rest(_, _, _, _)
assign_rest(r, sites, kind, xs) ==
    IF ~r.ok THEN Stopped(r.err, sites)
    ELSE assign_each(r.val, kind, xs)

assign_each(sites, kind, xs) ==
    IF xs = <<>> THEN Assigned(sites)
    ELSE assign_rest(assign_one(sites, kind, Head(xs)), sites, kind, Tail(xs))

\* if is_index_dict(magmom_entry): the loop over its items
index_pass(magmom_entry, sites) ==
    IF is_index_dict(magmom_entry).val
    THEN assign_each(sites, "index", magmom_entry.v)
    ELSE Assigned(sites)

\* if is_species_dict(magmom_entry): the loop over its items
species_pass(magmom_entry, by_index) ==
    IF ~by_index.ok THEN by_index
    ELSE IF is_species_dict(magmom_entry).val
    THEN assign_each(by_index.sites, "species", magmom_entry.v)
    ELSE by_index

\* if is_range_list(magmom_entry): the loop over its items
range_pass(magmom_entry, by_species, range_list) ==
    IF ~by_species.ok THEN by_species
    ELSE IF ~range_list.ok THEN Stopped(range_list.err, by_species.sites)
    ELSE IF range_list.val
    THEN assign_each(by_species.sites, "range", magmom_entry.v)
    ELSE by_species

\* magmoms = site_properties_from_structure(structure, "magmom", missing)
read_magmoms(by_range, missing) ==
    IF ~by_range.ok
    THEN [ok |-> FALSE, val |-> <<>>, err |-> by_range.err, sites |-> by_range.sites]
    ELSE site_properties_from_structure(by_range.sites, "magmom", missing)

\* format_magnetic_moments: the list, and the sites as the call leaves them
format_magnetic_moments(magmom_entry, sites, missing) ==
    read_magmoms(
        range_pass(magmom_entry,
                   species_pass(magmom_entry, index_pass(magmom_entry, sites)),
                   is_range_list(magmom_entry)),
        missing)

\* What format_incar_dict returns or raises, the sites and the mapping it was
\* given as it leaves them.
Formatted(r, sites, input) ==
    [ok |-> r.ok, val |-> r.val, err |-> r.err, sites |-> sites, input |-> input]

\* formatted_incar_dict["magmom"] = magmoms, then the keys in upper case; kept
\* is the mapping the caller gave as the call leaves it
set_magmoms(magmoms, popped, kept) ==
    IF ~magmoms.ok THEN Formatted(magmoms, magmoms.sites, kept)
    ELSE Formatted(Ok(upper_keys(<<>>, dict_set(popped, K_magmom, Magmoms(magmoms.val)))),
                   magmoms.sites, kept)

\* format_incar_dict popping the entry from the mapping it was given
format_incar_dict_inplace(incar_dict, sites, missing) ==
    IF truthy(dict_get(incar_dict, K_magmom))
    THEN set_magmoms(format_magnetic_moments(dict_get(incar_dict, K_magmom), sites, missing),
                     dict_pop(incar_dict, K_magmom), dict_pop(incar_dict, K_magmom))
    ELSE Formatted(Ok(upper_keys(<<>>, incar_dict)), sites, incar_dict)

\* format_incar_dict
format_incar_dict(incar_dict, sites, missing) ==
    LET formatted_incar_dict == incar_dict
    IN  IF truthy(dict_get(formatted_incar_dict, K_magmom))
        THEN set_magmoms(
                 format_magnetic_moments(dict_get(formatted_incar_dict, K_magmom), sites,
                                         missing),
                 dict_pop(formatted_incar_dict, K_magmom), incar_dict)
        ELSE Formatted(Ok(upper_keys(<<>>, formatted_incar_dict)), sites, incar_dict)

\* is_valid_magmom_entry; the three checks are joined by or
is_valid_magmom_entry(magmom_entry) ==
    IF is_index_dict(magmom_entry).val \/ is_species_dict(magmom_entry).val THEN Ok(TRUE)
    ELSE is_range_list(magmom_entry)

\* IncarModel(incar_dict=...): validate_incar_dict on a mapping whose tags
\* pymatgen's Incar takes
incar_model(incar_dict) ==
    IF has_key(incar_dict, K_magmom)
       /\ is_valid_magmom_entry(dict_get(incar_dict, K_magmom)) # Ok(TRUE)
    THEN Raise("ValidationError: Invalid INCAR dictionary")
    ELSE Ok(incar_dict)

\* the default of the parameter missing of format_incar_dict
MissingDefault == <<MScalar(0)>>

\* IncarModel.incar(structure): Incar(...) holds the formatted mapping
incar_model_format(incar_dict, sites) == format_incar_dict(incar_dict, sites, MissingDefault)

\* the entries tried: maps and lists of at most MaxEntryLen items, and maps
\* of an index and a species, which IncarModel rejects
MValues == { MScalar(1), MScalar(2), MVector(<<0, 0, 2>>) }
MIndexItems == { MIndexItem(n, val) : n \in {-1, 0, 2}, val \in MValues \ {MScalar(2)} }
MSpeciesItems == { MSpeciesItem(k, val) : k \in ASpecies, val \in MValues }
MRanges ==
    { MRange(0, 2, NoneValue, MScalar(1)), MRange(1, 3, IntValue(2), MScalar(2)),
      MRange(0, -1, NoneValue, MVector(<<0, 0, 2>>)), MRange(0, 3, IntValue(0), MScalar(1)),
      MText({"start", "stop", "value"}) }
DistinctKeys(items) == \A i, j \in 1..Len(items) : items[i].k = items[j].k => i = j
MEntries ==
    { PyDict(v) : v \in { w \in StringsUpTo(MIndexItems, MaxEntryLen) : DistinctKeys(w) } }
    \cup { PyDict(v) : v \in { w \in StringsUpTo(MSpeciesItems, MaxEntryLen) : DistinctKeys(w) } }
    \cup { PySeq(v) : v \in StringsUpTo(MRanges, MaxEntryLen) }
    \cup { PyDict(<<MIndexItem(0, MScalar(1)), s>>) : s \in MSpeciesItems }

\* the mappings tried: the entry alone, or with other tags before and after it
MTags == { KeyValue(K_nsw, Tag(1)), KeyValue(K_Nsw, Tag(2)), KeyValue(K_Magmom, Tag(3)) }
MDicts ==
    { before \o <<KeyValue(K_magmom, entry)>> \o after :
        entry \in MEntries,
        before \in { <<>>, <<KeyValue(K_nsw, Tag(1))>>, <<KeyValue(K_Magmom, Tag(3))>> },
        after \in { <<>>, <<KeyValue(K_Nsw, Tag(2))>> } }
    \cup { d \in StringsUpTo(MTags, 2) : DistinctKeys(d) }

MIdle ==
    /\ m_pc = "idle" /\ m_sites = <<>> /\ m_dict = <<>> /\ m_missing = <<>>
    /\ m_call = "none" /\ m_ret = NoResult /\ m_after = <<>> /\ m_kept = <<>>

(***************************************************************************)
(* io.py: the Input aggregator                                             *)
(***************************************************************************)
\* One section of the input document: the key is absent, its value is null, or
\* it holds a mapping d.
NoSection(d) == [k |-> "absent", d |-> d]
NullSection(d) == [k |-> "null", d |-> d]
Present(d) == [k |-> "dict", d |-> d]

\* The incar section, by what IncarModel.validate_incar_dict finds in it: no
\* magmom entry, a valid one or an invalid one, and whether pymatgen's Incar takes
\* the mapping.
IncarSection(magmom, tags_ok) == [magmom |-> magmom, tags_ok |-> tags_ok]

EmptyStructureSection ==
    Section(Absent, Absent, Absent, Absent, Absent, Absent, "absent", Absent)
EmptyKpSection == KpSection(Absent, Absent, Absent, Absent, Absent)
EmptyIncarSection == IncarSection("none", TRUE)

Document(structure, incar, kpoints) ==
    [structure |-> structure, incar |-> incar, kpoints |-> kpoints]

\* self.input_dict.keys()
keys(input_dict) ==
    { name \in {"structure", "incar", "kpoints"} : input_dict[name].k # "absent" }

\* input_dictionary.get(name): None for an absent key and for a null value
get(input_dict, name) == IF input_dict[name].k = "dict" THEN Present(input_dict[name].d)
                         ELSE NullSection(input_dict[name].d)

\* the outcome of an access: the result res and the resolvers called, in order
Outcome(res, calls) == [res |-> res, calls |-> calls]

\* results of an access; the missing-section error carries the section it names
\* and the keys it lists
IOk(v) == [ok |-> TRUE, val |-> v, err |-> "none", section |-> "", keys |-> {}]
IRaise(e) == [ok |-> FALSE, val |-> <<>>, err |-> e, section |-> "", keys |-> {}]
IMissing(section, ks) ==
    [ok |-> FALSE, val |-> <<>>, err |-> "ValueError: No dictionary found in input file",
     section |-> section, keys |-> ks]
INoResult == IRaise("not called")
Lift(r) == IF r.ok THEN IOk(r.val) ELSE IRaise(r.err)

\* structure_model.structure of the three variant models
model_structure(m, found, n) ==
    CASE m.cls = "ExternalStructure" -> external_structure(m, found)
      [] m.cls = "ManualStructure" -> manual_structure(m)
      [] m.cls = "PrototypeStructure" -> prototype_structure(m, n)

\* Input.structure returning an empty structure for a missing section
input_structure_default(input_dict, found, n) ==
    IF get(input_dict, "structure").k # "dict"
    THEN Outcome(IOk(<<>>), <<>>)
    ELSE LET structure_model == structure_model_from_input_dict(input_dict.structure.d)
         IN  IF ~structure_model.ok
             THEN Outcome(IRaise(structure_model.err), <<"structure_model_from_input_dict">>)
             ELSE Outcome(Lift(model_structure(structure_model.m, found, n)),
                          <<"structure_model_from_input_dict", "structure_model.structure">>)

\* Input.structure
input_structure(input_dict, found, n) ==
    IF get(input_dict, "structure").k # "dict"
    THEN Outcome(IMissing("structure", keys(input_dict)), <<>>)
    ELSE LET structure_model == structure_model_from_input_dict(input_dict.structure.d)
         IN  IF ~structure_model.ok
             THEN Outcome(IRaise(structure_model.err), <<"structure_model_from_input_dict">>)
             ELSE Outcome(Lift(model_structure(structure_model.m, found, n)),
                          <<"structure_model_from_input_dict", "structure_model.structure">>)

\* IncarModel(incar_dict=...): validate_incar_dict
validate_incar_dict(incar_dict) ==
    IF incar_dict.magmom = "invalid" \/ ~incar_dict.tags_ok
    THEN Raise("ValidationError: Invalid INCAR dictionary")
    ELSE Ok(incar_dict)

\* IncarModel.incar(structure); formatted: the magmom entry fits the structure
incar_model_incar(incar_dict, formatted) ==
    IF incar_dict.magmom = "valid" /\ ~formatted
    THEN Raise("IndexError: list index out of range")
    ELSE Ok(<<"Incar">>)

\* Input.incar resolving no structure
input_incar_alone(input_dict, found, n, formatted) ==
    IF get(input_dict, "incar").k # "dict"
    THEN Outcome(IMissing("incar", keys(input_dict)), <<>>)
    ELSE IF ~validate_incar_dict(input_dict.incar.d).ok
    THEN Outcome(Lift(validate_incar_dict(input_dict.incar.d)), <<"IncarModel">>)
    ELSE Outcome(Lift(incar_model_incar(input_dict.incar.d, formatted)),
                 <<"IncarModel", "incar_model.incar">>)

\* Input.incar
input_incar(input_dict, found, n, formatted) ==
    IF get(input_dict, "incar").k # "dict"
    THEN Outcome(IMissing("incar", keys(input_dict)), <<>>)
    ELSE IF ~validate_incar_dict(input_dict.incar.d).ok
    THEN Outcome(Lift(validate_incar_dict(input_dict.incar.d)), <<"IncarModel">>)
    ELSE LET structure == input_structure(input_dict, found, n)
             calls == <<"IncarModel", "Input.structure">> \o structure.calls
         IN  IF ~structure.res.ok THEN Outcome(structure.res, calls)
             ELSE Outcome(Lift(incar_model_incar(input_dict.incar.d, formatted)),
                          Append(calls, "incar_model.incar"))

\* Input.kpoints
input_kpoints(input_dict, found, n) ==
    IF get(input_dict, "kpoints").k # "dict"
    THEN Outcome(IMissing("kpoints", keys(input_dict)), <<>>)
    ELSE LET kpoints_model == kpoints_model_from_dictionary(input_dict.kpoints.d)
         IN  IF ~kpoints_model.ok
             THEN Outcome(IRaise(kpoints_model.err), <<"kpoints_model_from_dictionary">>)
             ELSE IF requires_structure(kpoints_model.m)
             THEN LET structure == input_structure(input_dict, found, n)
                      calls == <<"kpoints_model_from_dictionary", "Input.structure">>
                               \o structure.calls
                  IN  IF ~structure.res.ok THEN Outcome(structure.res, calls)
                      ELSE Outcome(Lift(kpoints_with_structure(kpoints_model.m)),
                                   Append(calls, "kpoints_model.kpoints"))
             ELSE Outcome(Lift(kpoints_plain(kpoints_model.m)),
                          <<"kpoints_model_from_dictionary", "kpoints_model.kpoints">>)

\* the sections tried
IStructures ==
    { NoSection(EmptyStructureSection), NullSection(EmptyStructureSection) }
    \cup { Present(d) : d \in {
        Section(Str(S_manual), Absent, Absent, Absent, NaCl, PyList(CoordsOf(2)), "list", Absent),
        Section(Str(S_manual), Absent, Absent, Absent, NaCl, PyList(CoordsOf(1)), "list", Absent),
        Section(Str(S_external), Str(<<"P">>), Absent, Absent, Absent, Absent, "absent", Absent),
        Section(Str(S_external), Absent, Absent, Str(<<"m","p","-","1">>), Absent, Absent,
                "absent", Absent),
        Section(Str(S_external), Absent, Absent, Absent, Absent, Absent, "absent", Absent),
        Section(Str(<<"w","r","o","n","g">>), Absent, Absent, Absent, NaCl,
                PyList(CoordsOf(2)), "list", Absent) } }

IKpoints ==
    { NoSection(EmptyKpSection), NullSection(EmptyKpSection) }
    \cup { Present(KpSection(Str(m), sp, Absent, Absent, Absent)) :
             m \in {S_gamma, S_monkhorst_pack},
             sp \in { PyList(<<PInt(1), PInt(1), PInt(1)>>), PNum(PInt(1)) } }
    \cup { Present(KpSection(Str(m), PNum(x), Absent, Absent, Absent)) :
             m \in {S_surface, S_autoline, S_xyz}, x \in { PInt(1), PInt(-1) } }
    \cup { Present(KpSection(Str(S_line), PNum(PInt(1)), Absent, PyList(<<P_G, P_X>>), l)) :
             l \in { PyList(<<SStr("G"), SStr("X")>>),
                     PyList(<<SStr("G"), SStr("X"), SStr("G")>>) } }

IIncars ==
    { NoSection(EmptyIncarSection), NullSection(EmptyIncarSection) }
    \cup { Present(IncarSection(magmom, tags_ok)) :
             magmom \in {"none", "valid", "invalid"}, tags_ok \in BOOLEAN }

IDocuments ==
    { Document(s, i, k) : s \in IStructures, i \in IIncars, k \in IKpoints }

IIdle ==
    /\ i_pc = "idle" /\ i_acc = "none" /\ i_arg = FALSE /\ i_calls = <<>>
    /\ i_doc = Document(NoSection(EmptyStructureSection), NoSection(EmptyIncarSection),
                        NoSection(EmptyKpSection))
    /\ i_new = NoResult /\ i_res = INoResult

(***************************************************************************)
(* scheduler.py: the directive mapping and the Job model                   *)
(***************************************************************************)
\* Values of the directive mapping and of the job parameters: a string, a list
\* (of its elements only the type is kept, or the text of a directive), a number.
Text(s) == [t |-> "str", v |-> <<[text |-> s]>>]
ListOf(types) == [t |-> "list", v |-> [i \in 1..Len(types) |-> [et |-> types[i]]]]
Directives(texts) == [t |-> "list", v |-> [i \in 1..Len(texts) |-> [text |-> texts[i]]]]

S_pbs == <<"p", "b", "s">>
S_slurm == <<"s", "l", "u", "r", "m">>
S_sge == <<"s", "g", "e">>
HashBang == <<"#", "!">>

\* JOB_PARAMETERS: the parameters of a job and the keys that stand for them
JOB_PARAMETERS ==
    << [param |-> "cores", aliases |-> <<"cores", "num_cores", "core_count">>],
       [param |-> "memory", aliases |-> <<"memory", "mem", "ram">>],
       [param |-> "processes", aliases |-> <<"processes", "num_processes">>],
       [param |-> "job_script_prologue",
        aliases |-> <<"job_script_prologue", "script_prologue", "script", "commands">>],
       [param |-> "header_skip", aliases |-> <<"header_skip", "skip_directives">>],
       [param |-> "job_directives_skip",
        aliases |-> <<"job_directives_skip", "skip_header_directives", "skip">>],
       [param |-> "shebang", aliases |-> <<"shebang", "interpreter">>],
       [param |-> "python", aliases |-> <<"python", "python_exec">>],
       [param |-> "job_name", aliases |-> <<"name", "jobname", "job_name">>] >>

\* resolve_aliases: for each parameter, the value of the first alias present
RECURSIVE resolve_aliases(_, _, _)
resolve_aliases(resolved_dict, input_dict, alias_dict) ==
    IF alias_dict = <<>> THEN resolved_dict
    ELSE LET aliases == Head(alias_dict).aliases
             present == { i \in 1..Len(aliases) : has_key(input_dict, aliases[i]) }
             first == CHOOSE i \in present : \A j \in present : i <= j
         IN  resolve_aliases(
                 IF present = {} THEN resolved_dict
                 ELSE dict_set(resolved_dict, Head(alias_dict).param,
                               dict_get(input_dict, aliases[first])),
                 input_dict, Tail(alias_dict))

\* {k: v for k, v in directives_dict.items() if k not in job_parameters}
RECURSIVE extra_of(_, _)
extra_of(directives_dict, job_parameters) ==
    IF directives_dict = <<>> THEN <<>>
    ELSE (IF has_key(job_parameters, Head(directives_dict).k) THEN <<>>
          ELSE <<Head(directives_dict)>>)
         \o extra_of(Tail(directives_dict), job_parameters)

\* f"--nodes={nodes}" and f"-l nodes={nodes}"
nodes_directive(scheduler, nodes) ==
    IF scheduler = S_slurm THEN "--nodes=" \o ToString(nodes)
    ELSE "-l nodes=" \o ToString(nodes)

\* job_parameters['job_extra_directives'].append(directive), the list created
\* when the key is missing
append_directive(job_parameters, directive) ==
    LET present == IF has_key(job_parameters, "job_extra_directives")
                   THEN dict_get(job_parameters, "job_extra_directives").v
                   ELSE <<>>
    IN  dict_set(job_parameters, "job_extra_directives",
                 [t |-> "list", v |-> Append(present, [text |-> directive])])

\* update_job_parameters_with_nodes checking the scheduler before the nodes
update_job_parameters_checked(job_parameters, extra_parameters, scheduler) ==
    IF lower(scheduler) \notin {S_slurm, S_pbs} THEN Raise("ValueError: Unsupported scheduler")
    ELSE IF dict_get(extra_parameters, "nodes").t = "none" THEN Ok(job_parameters)
    ELSE Ok(append_directive(job_parameters,
                             nodes_directive(lower(scheduler),
                                             dict_get(extra_parameters, "nodes").v[1].n)))

\* update_job_parameters_with_nodes: what it returns is the mapping it was given,
\* changed in place
update_job_parameters_with_nodes(job_parameters, extra_parameters, scheduler) ==
    LET nodes == dict_get(extra_parameters, "nodes")
    IN  IF nodes.t # "none"
        THEN IF lower(scheduler) \in {S_slurm, S_pbs}
             THEN Ok(append_directive(job_parameters,
                                      nodes_directive(lower(scheduler), nodes.v[1].n)))
             ELSE Raise("ValueError: Unsupported scheduler")
        ELSE Ok(job_parameters)

\* Job.validate_scheduler_and_directives accepting any scheduler
validate_directives_only(scheduler, directives_dict) ==
    LET shebang == IF has_key(directives_dict, "shebang")
                   THEN dict_get(directives_dict, "shebang") ELSE Text(<<>>)
        script == dict_get(directives_dict, "script")
    IN  IF shebang.t # "str"
        THEN Raise("AttributeError: object has no attribute 'startswith'")
        ELSE IF ~startswith(shebang.v[1].text, HashBang)
        THEN Raise("ValidationError: Shebang must start with '#!'")
        ELSE IF script.t # "list" \/ \E i \in 1..Len(script.v) : script.v[i].et # "str"
        THEN Raise("ValidationError: Script must be a list of strings.")
        ELSE IF ~(has_key(directives_dict, "cores") \/ has_key(directives_dict, "memory"))
        THEN Raise("ValidationError: Job must specify at least 'cores' and 'memory'.")
        ELSE Ok(<<>>)

\* Job.validate_scheduler_and_directives; an error that is not a ValueError
\* leaves the validator as it is
validate_scheduler_and_directives(scheduler, directives_dict) ==
    IF scheduler \notin {S_pbs, S_slurm}
    THEN Raise("ValidationError: Scheduler must be either 'pbs' or 'slurm'")
    ELSE validate_directives_only(scheduler, directives_dict)

\* the job object: its parameters, its extra parameters, shebang and script
JobObject(job_parameters, extra_parameters, directives_dict) ==
    [job_parameters |-> job_parameters, extra_parameters |-> extra_parameters,
     shebang |-> dict_get(directives_dict, "shebang"),
     script |-> dict_get(directives_dict, "script")]
NoJob == JobObject(<<>>, <<>>, <<>>)

\* Job(scheduler, directives_dict); accepted: the dask job class takes the
\* parameters (it raises, for one, when neither they nor the dask configuration
\* give both cores and memory)
job_init(scheduler, directives_dict, accepted) ==
    LET validated == validate_scheduler_and_directives(scheduler, directives_dict)
        resolved == resolve_aliases(<<>>, directives_dict, JOB_PARAMETERS)
        extra_parameters == extra_of(directives_dict, resolved)
        updated == update_job_parameters_with_nodes(resolved, extra_parameters, scheduler)
        job_parameters ==
            IF has_key(updated.val, "job_name") THEN updated.val
            ELSE dict_set(updated.val, "job_name", Text(<<"v", "a", "s", "p">> \o scheduler))
    IN  IF ~validated.ok THEN [new |-> validated, job |-> NoJob]
        ELSE IF ~updated.ok THEN [new |-> updated, job |-> NoJob]
        ELSE IF ~accepted
        THEN [new |-> Raise("ValueError: dask job"), job |-> NoJob]
        ELSE [new |-> Ok(<<>>),
              job |-> JobObject(job_parameters, extra_parameters, directives_dict)]

\* the schedulers and directive mappings tried
JSchedulers == { S_pbs, S_slurm, upper(S_pbs), upper(S_slurm), S_sge }
JShebangs ==
    { <<>> } \cup { <<KeyValue("shebang", x)>> :
                      x \in { Text(HashBang \o <<"/", "s", "h">>), Text(<<"s", "h">>),
                              Text(<<"#">>), Tag(1) } }
JScripts ==
    { <<>> } \cup { <<KeyValue("script", x)>> :
                      x \in { ListOf(<<>>), ListOf(<<"str", "str">>), ListOf(<<"str", "int">>),
                              Text(<<"l", "s">>) } }
JResources ==
    { <<>>, <<KeyValue("cores", Tag(4))>>, <<KeyValue("memory", Text(<<"8", "G">>))>>,
      <<KeyValue("cores", Tag(4)), KeyValue("memory", Text(<<"8", "G">>))>>,
      <<KeyValue("num_cores", Tag(4)), KeyValue("mem", Text(<<"8", "G">>))>> }
JNodes == { <<>> } \cup { <<KeyValue("nodes", Tag(n))>> : n \in 1..MaxNodes }
JDirectives ==
    { a \o b \o c \o d : a \in JShebangs, b \in JScripts, c \in JResources, d \in JNodes }

\* the job parameters and extra parameters tried for update_job_parameters_with_nodes
JParameters ==
    { a \o b : a \in { <<>>, <<KeyValue("cores", Tag(4))>> },
               b \in { <<>>, <<KeyValue("job_extra_directives", Directives(<<>>))>>,
                       <<KeyValue("job_extra_directives", Directives(<<"--exclusive">>))>>,
                       <<KeyValue("job_extra_directives",
                                  Directives(<<"--exclusive", "--nodes=1">>)),
                         KeyValue("memory", Text(<<"8", "G">>))>> } }
JExtras ==
    { a \o d : a \in { <<>>, <<KeyValue("queue", Text(<<"q">>))>> },
               d \in JNodes \cup { <<KeyValue("nodes", PyNone)>> } }

JIdle ==
    /\ j_pc = "idle" /\ j_sched = <<>> /\ j_dict = <<>> /\ j_params = <<>>
    /\ j_extra = <<>> /\ j_call = "none" /\ j_ret = NoResult /\ j_after = <<>>
    /\ j_job = NoJob

(***************************************************************************)
(* check.py: CheckStructure.check_positions                                *)
(***************************************************************************)
\* Cartesian coordinates are whole multiples of a quarter of an angstrom, so the
\* limit of 0.5 of check_positions is CloseUnits of them.
CloseUnits == 2

\* an atom of the structure checked: its symbol and its Cartesian coordinates
Atom(symbol, x, y) == [symbol |-> symbol, x |-> x, y |-> y]

\* distance.squareform(distance.pdist(cartesian_coords))[i][j], squared: 0 on the
\* diagonal
distance2(atoms, i, j) ==
    (atoms[i].x - atoms[j].x) * (atoms[i].x - atoms[j].x)
    + (atoms[i].y - atoms[j].y) * (atoms[i].y - atoms[j].y)

\* np.where(distance_matrix < 0.5): the cells of the matrix, row by row
close_indices(atoms) ==
    LET n == Len(atoms)
        cells == [c \in 1..(n * n) |-> <<((c - 1) \div n) + 1, ((c - 1) % n) + 1>>]
        IsClose(cell) == distance2(atoms, cell[1], cell[2]) < CloseUnits * CloseUnits
    IN  SelectSeq(cells, IsClose)

\* f"{symbols[i]}{i} is too close to {symbols[j]}{j}", indices counted from 0
Message(atoms, cell) ==
    [first |-> atoms[cell[1]].symbol, i |-> cell[1] - 1,
     second |-> atoms[cell[2]].symbol, j |-> cell[2] - 1]

\* check_positions: self.messages after the call, which is what it returns
check_positions(atoms, messages) ==
    messages \o [c \in 1..Len(close_indices(atoms)) |->
                   Message(atoms, close_indices(atoms)[c])]

\* the structures checked: at most MaxAtoms atoms on a grid of quarter angstroms
QAtoms == { Atom("Na", x, y) : x \in 0..GridSize, y \in 0..1 }
           \cup { Atom("Cl", x, x) : x \in 0..1 }
QStructures == StringsUpTo(QAtoms, MaxAtoms) \ {<<>>}

QIdle ==
    /\ q_pc = "idle" /\ q_atoms = <<>> /\ q_messages = <<>> /\ q_ret = NoResult
    /\ q_calls = 0

(***************************************************************************)
(* validate.py: validate_internal_mode.  Only `key in structure_input_set` *)
(* is asked of the dictionary, so it is modelled by its set of keys.       *)
(***************************************************************************)
manual_set == <<"lattice", "species", "coords">>
prototype_set == <<"lattice", "species", "prototype">>

\* all(key in structure_input_set for key in key_list)
all_in(key_list, structure_input_set) ==
    \A n \in 1..Len(key_list) : key_list[n] \in structure_input_set

\* any(key in structure_input_set for key in key_list)
any_in(key_list, structure_input_set) ==
    \E n \in 1..Len(key_list) : key_list[n] \in structure_input_set

PyTrue == <<"True">>

validate_internal_mode(structure_input_set) ==
    IF all_in(manual_set, structure_input_set) /\ all_in(prototype_set, structure_input_set)
    THEN Raise("ValueError: Structure input set must contain either manual or prototype information, not both")
    ELSE IF ~any_in(manual_set, structure_input_set) /\ ~any_in(prototype_set, structure_input_set)
    THEN Raise("ValueError: Structure input set must contain either manual or prototype information")
    ELSE IF any_in(manual_set, structure_input_set) /\ ~all_in(manual_set, structure_input_set)
    THEN Raise("ValueError: Structure input set must contain lattice, species, and coords")
    ELSE IF any_in(prototype_set, structure_input_set) /\ ~all_in(prototype_set, structure_input_set)
    THEN Raise("ValueError: Structure input set must contain lattice, species, and prototype")
    ELSE Ok(PyTrue)

\* the keys a structure section may hold
VKeys == { "mode", "lattice", "species", "coords", "prototype", "file", "code" }

VIdle == v_pc = "idle" /\ v_in = {} /\ v_ret = NoResult

(***************************************************************************)
(* io.py: the Structure objects the accesses of one Input build.  heap is  *)
(* the sequence of the objects built so far, each with the names of the    *)
(* site properties its sites carry now.                                    *)
(***************************************************************************)
StructureObject(res, properties) == [res |-> res, properties |-> properties]

\* what an access returns, the heap after it, and the site properties of the
\* object returned
Access(outcome, heap, properties) ==
    [outcome |-> outcome, heap |-> heap, properties |-> properties]

\* an Input.structure that keeps the structure it built and hands it out again
structure_object_memoized(heap, input_dict, found, n) ==
    IF heap # <<>>
    THEN Access(Outcome(heap[Len(heap)].res, <<>>), heap, heap[Len(heap)].properties)
    ELSE LET outcome == input_structure(input_dict, found, n)
         IN  Access(outcome,
                    IF outcome.res.ok THEN Append(heap, StructureObject(outcome.res, {}))
                    ELSE heap, {})

\* Input.structure: a new model and a new Structure on every access
structure_object(heap, input_dict, found, n) ==
    LET outcome == input_structure(input_dict, found, n)
    IN  Access(outcome,
               IF outcome.res.ok THEN Append(heap, StructureObject(outcome.res, {}))
               ELSE heap, {})

\* the access called the resolver named
ResolverCalled(outcome, name) == \E c \in 1..Len(outcome.calls) : outcome.calls[c] = name

\* Input.incar: the structure it resolves gets the magmom site property when
\* the section has a magmom entry; the Incar returned is not a structure
incar_object(heap, input_dict, found, n, formatted) ==
    LET outcome == input_incar(input_dict, found, n, formatted)
        structure == structure_object(heap, input_dict, found, n)
        assigned == IF input_dict.incar.d.magmom = "valid" THEN {"magmom"} ELSE {}
    IN  IF ~ResolverCalled(outcome, "Input.structure") \/ ~structure.outcome.res.ok
        THEN Access(outcome, heap, {})
        ELSE Access(outcome,
                    [structure.heap EXCEPT ![Len(structure.heap)].properties =
                        structure.properties \cup assigned],
                    {})

\* Input.kpoints: a structure is resolved when the model requires one
kpoints_object(heap, input_dict, found, n) ==
    LET outcome == input_kpoints(input_dict, found, n)
        structure == structure_object(heap, input_dict, found, n)
    IN  IF ~ResolverCalled(outcome, "Input.structure") THEN Access(outcome, heap, {})
        ELSE Access(outcome, structure.heap, {})

\* one access in the history of an Input
AccessRecord(acc, access) ==
    [acc |-> acc, res |-> access.outcome.res, properties |-> access.properties]

\* the documents and the surroundings (database, generator, fit of the magmom
\* entry) the accesses are repeated in
DStructures ==
    { NullSection(EmptyStructureSection),
      Present(Section(Str(S_manual), Absent, Absent, Absent, NaCl, PyList(CoordsOf(2)),
                      "list", Absent)),
      Present(Section(Str(S_external), Absent, Absent, Str(<<"m","p","-","1">>), Absent,
                      Absent, "absent", Absent)) }
DIncars ==
    { NullSection(EmptyIncarSection), Present(IncarSection("none", TRUE)),
      Present(IncarSection("valid", TRUE)) }
DKpoints ==
    { NullSection(EmptyKpSection),
      Present(KpSection(Str(S_gamma), PyList(<<PInt(1), PInt(1), PInt(1)>>), Absent, Absent,
                        Absent)),
      Present(KpSection(Str(S_surface), PNum(PInt(1)), Absent, Absent, Absent)) }
DDocuments == { Document(s, i, k) : s \in DStructures, i \in DIncars, k \in DKpoints }
DSurroundings == [found : BOOLEAN, n : 1..MaxCoords, formatted : BOOLEAN]

DIdle ==
    /\ d_pc = "idle" /\ d_heap = <<>> /\ d_hist = <<>>
    /\ d_doc = Document(NoSection(EmptyStructureSection), NoSection(EmptyIncarSection),
                        NoSection(EmptyKpSection))
    /\ d_env = [found |-> FALSE, n |-> 1, formatted |-> FALSE]

(***************************************************************************)
(* io.py: Input.write_inputs, one `if self.<section>_dict is not None:`    *)
(* block at a time                                                         *)
(***************************************************************************)
SectionOrder == <<"structure", "incar", "kpoints">>

\* the file each block writes
file_name(name) ==
    CASE name = "structure" -> "POSCAR"
      [] name = "incar" -> "INCAR"
      [] name = "kpoints" -> "KPOINTS"

\* the blocks with those of incar and kpoints exchanged
section_after_exchanged(name) ==
    CASE name = "structure" -> "kpoints"
      [] name = "kpoints" -> "incar"
      [] name = "incar" -> "done"

\* the block that follows a block in write_inputs
section_after(name) ==
    CASE name = "structure" -> "incar"
      [] name = "incar" -> "kpoints"
      [] name = "kpoints" -> "done"

Written(files, res) == [files |-> files, res |-> res]

\* the section is not None: resolved is what self.<section> gave, and the file
\* is written into the directory when that is a result
write_resolved(name, resolved, writable, files) ==
    IF ~resolved.ok THEN Written(files, resolved)
    ELSE IF ~writable
    THEN Written(files, IRaise("OSError: cannot write " \o file_name(name)))
    ELSE Written(Append(files, file_name(name)), IOk(<<>>))

\* one block: nothing for a section that is None; else self.<section> is read,
\* which gives resolved, and its file is written
write_block(input_dict, name, resolved, writable, files) ==
    IF get(input_dict, name).k # "dict" THEN Written(files, IOk(<<>>))
    ELSE write_resolved(name, resolved, writable, files)

\* the documents written and the surroundings of the call
WIncars == DIncars \cup { Present(IncarSection("invalid", TRUE)) }
WKpoints ==
    DKpoints \cup
    { NoSection(EmptyKpSection),
      Present(KpSection(Str(S_line), PNum(PInt(1)), Absent, PyList(<<P_G, P_X>>),
                        PyList(<<SStr("G"), SStr("X"), SStr("G")>>))) }
WDocuments == { Document(s, i, k) : s \in DStructures, i \in WIncars, k \in WKpoints }
WSurroundings ==
    [found : BOOLEAN, n : 1..MaxCoords, formatted : BOOLEAN, writable : BOOLEAN]

WIdle ==
    /\ w_pc = "idle" /\ w_files = <<>> /\ w_res = INoResult /\ w_at = "none"
    /\ w_doc = Document(NoSection(EmptyStructureSection), NoSection(EmptyIncarSection),
                        NoSection(EmptyKpSection))
    /\ w_env = [found |-> FALSE, n |-> 1, formatted |-> FALSE, writable |-> FALSE]

\* every component but one is idle
IdleBut(x) ==
    /\ x = "K" \/ KIdle
    /\ x = "S" \/ SIdle
    /\ x = "F" \/ FIdle
    /\ x = "C" \/ CIdle
    /\ x = "P" \/ PIdle
    /\ x = "A" \/ AIdle
    /\ x = "I" \/ IIdle
    /\ x = "M" \/ MIdle
    /\ x = "J" \/ JIdle
    /\ x = "Q" \/ QIdle
    /\ x = "V" \/ VIdle
    /\ x = "D" \/ DIdle
    /\ x = "W" \/ WIdle

(***************************************************************************)
(* The kpoints section: validation, then realisation                       *)
(***************************************************************************)
PInit ==
    /\ p_pc = "start" /\ p_call = "none" /\ p_struct = FALSE
    /\ p_in \in PInputs
    /\ p_model = KpNotBuilt /\ p_req = NoResult /\ p_res = NoResult
    /\ IdleBut("P")

\* kpoints_model_from_dictionary(p_in)
PModelFromDictionary ==
    /\ p_pc = "start"
    /\ p_call' = "kpoints_model_from_dictionary"
    /\ p_model' = kpoints_model_from_dictionary(p_in)
    /\ p_pc' = IF p_model'.ok THEN "built" ELSE "failed"
    /\ UNCHANGED <<p_in, p_struct, p_req, p_res, notP>>

\* cls.validate(p_in) of one of the five variant classes
PValidate ==
    /\ p_pc = "start"
    /\ \E cls \in KpVariants :
        /\ p_call' = cls
        /\ p_model' = validate_kp(cls, p_in)
    /\ p_pc' = IF p_model'.ok THEN "built" ELSE "failed"
    /\ UNCHANGED <<p_in, p_struct, p_req, p_res, notP>>

\* model.kpoints() or, for a model taking a structure, model.kpoints(structure)
PKpoints ==
    /\ p_pc = "built"
    /\ p_struct' = (p_model.m.cls \in {"SurfaceKpoints", "AutoLineKpoints"})
    /\ p_res' = IF p_struct' THEN kpoints_with_structure(p_model.m)
                ELSE kpoints_plain(p_model.m)
    /\ p_pc' = "realised"
    /\ UNCHANGED <<p_in, p_call, p_model, p_req, notP>>

\* kpoints_from_dictionary(p_in, structure), with a structure or with None
PKpointsFromDictionary ==
    /\ p_pc = "start"
    /\ \E has_structure \in BOOLEAN :
        /\ p_struct' = has_structure
        /\ p_res' = kpoints_from_dictionary(p_in, has_structure)
    /\ p_call' = "kpoints_from_dictionary"
    /\ p_model' = kpoints_model_from_dictionary(p_in)
    /\ p_req' = IF p_model'.ok THEN Ok(requires_structure(p_model'.m)) ELSE NoResult
    /\ p_pc' = "realised"
    /\ UNCHANGED <<p_in, notP>>

\* model.requires_structure
PRequiresStructure ==
    /\ p_pc = "built" /\ p_req = NoResult
    /\ p_req' = Ok(requires_structure(p_model.m))
    /\ UNCHANGED <<p_pc, p_in, p_call, p_struct, p_model, p_res, notP>>

PNext ==
    \/ PModelFromDictionary \/ PValidate \/ PKpoints \/ PKpointsFromDictionary
    \/ PRequiresStructure

SpecP == PInit /\ [][PNext]_vars

(***************************************************************************)
(* Site properties: calls of the three assign functions on one structure   *)
(***************************************************************************)
AStart(pc) ==
    /\ a_pc = pc /\ a_prev = <<>> /\ a_op = NoOp /\ a_ret = NoResult /\ a_log = <<>>
    /\ IdleBut("A")

\* a structure of two species, for the calls by species and by index
AInit == AStart("assign") /\ a_sites \in AStructures

\* a structure of n sites, for the calls by range
RInit ==
    /\ AStart("range")
    /\ a_sites \in { SitesOf([i \in 1..n |-> "Fe"]) : n \in 0..MaxSites } \cup {Fluorite}

\* one call: the structure is changed in place when the call returns
ACalled(op, sel, r, pc) ==
    /\ a_pc' = pc
    /\ a_prev' = a_sites
    /\ a_op' = op
    /\ a_sites' = IF r.ok THEN r.val ELSE a_sites
    /\ a_ret' = IF r.ok THEN Ok(<<>>) ELSE r
    /\ a_log' = IF r.ok
                THEN Append(a_log, [sel |-> sel, name |-> op.name, value |-> op.value])
                ELSE a_log
    /\ UNCHANGED notA

\* assign_site_property_by_species(structure, species, name, value)
AAssignBySpecies ==
    /\ a_pc = "assign" /\ Len(a_log) < MaxOps
    /\ \E species \in ASpecies \cup {"H"}, name \in PropertyNames, value \in AValues :
        ACalled(BySpecies(species, name, value),
                { i \in 0..(Len(a_sites) - 1) : a_sites[i + 1].species = species },
                assign_site_property_by_species(a_sites, species, name, value),
                "assign")

\* assign_site_property_by_index(structure, index, "magmom", value)
AAssignByIndex ==
    /\ a_pc = "assign" /\ Len(a_log) < MaxOps
    /\ \E index \in AIndices, value \in AValues :
        ACalled(ByIndex(index, "magmom", value),
                { i \in 0..(Len(a_sites) - 1) : i = index \/ i = index + Len(a_sites) },
                assign_site_property_by_index(a_sites, index, "magmom", value),
                "assign")

\* assign_site_property_by_range(structure, slice(start, stop, step), "magmom", value),
\* called twice as in test_assign_magnetic_moments_by_range
AAssignByRange ==
    /\ a_pc \in {"range", "ranged"}
    /\ \E start, stop \in ABounds(Len(a_sites)), step \in ASteps(Len(a_sites)),
          value \in AValues :
        ACalled(ByRange(slice(start, stop, step), "magmom", value),
                slice_indices(slice(start, stop, step), Len(a_sites)),
                assign_site_property_by_range(a_sites, slice(start, stop, step),
                                              "magmom", value),
                IF a_pc = "range" THEN "ranged" ELSE "done")

\* site_properties_from_structure(structure, name, default), after the assignments
AReadProperties ==
    /\ a_pc = "assign"
    /\ \E name \in PropertyNames, default \in ADefaults :
        LET r == site_properties_from_structure(a_sites, name, default)
        IN  /\ a_pc' = "read"
            /\ a_prev' = a_sites
            /\ a_op' = Read(name, default)
            /\ a_sites' = r.sites
            /\ a_ret' = Ok(r.val)
            /\ UNCHANGED <<a_log, notA>>

ANext == AAssignBySpecies \/ AAssignByIndex \/ AReadProperties
RNext == AAssignByRange

SpecA == AInit /\ [][ANext]_vars
SpecR == RInit /\ [][RNext]_vars

(***************************************************************************)
(* The incar mapping: one call that formats it for a structure             *)
(***************************************************************************)
MInit ==
    /\ m_pc = "start" /\ m_sites \in AStructures /\ m_dict \in MDicts
    /\ m_missing = <<>> /\ m_call = "none" /\ m_ret = NoResult
    /\ m_after = m_sites /\ m_kept = m_dict
    /\ IdleBut("M")

\* one call: the structure and the mapping are the caller's objects
MCalled(call, missing, r) ==
    /\ m_pc' = "done"
    /\ m_call' = call
    /\ m_missing' = missing
    /\ m_ret' = [ok |-> r.ok, val |-> r.val, err |-> r.err]
    /\ m_after' = r.sites
    /\ m_kept' = r.input
    /\ UNCHANGED <<m_sites, m_dict, notM>>

\* format_incar_dict(incar_dict, structure, missing), missing given or left out
MFormatIncarDict ==
    /\ m_pc = "start"
    /\ \E missing \in { MissingDefault, <<MVector(<<0, 0, 0>>)>> } :
        MCalled("format_incar_dict", missing, format_incar_dict(m_dict, m_sites, missing))

\* IncarModel(incar_dict=...).incar(structure), for a mapping the model accepts
MIncarModelIncar ==
    /\ m_pc = "start" /\ incar_model(m_dict).ok
    /\ MCalled("IncarModel.incar", MissingDefault, incar_model_format(m_dict, m_sites))

\* IncarModel(incar_dict=...) rejecting the mapping
MIncarModelRejects ==
    /\ m_pc = "start" /\ ~incar_model(m_dict).ok
    /\ m_pc' = "done"
    /\ m_call' = "IncarModel"
    /\ m_ret' = incar_model(m_dict)
    /\ UNCHANGED <<m_sites, m_dict, m_missing, m_after, m_kept, notM>>

MNext == MFormatIncarDict \/ MIncarModelIncar \/ MIncarModelRejects

SpecM == MInit /\ [][MNext]_vars

(***************************************************************************)
(* The scheduler: one call for a scheduler name                            *)
(***************************************************************************)
JInit ==
    /\ j_pc = "start" /\ j_sched \in JSchedulers
    /\ j_dict = <<>> /\ j_params = <<>> /\ j_extra = <<>> /\ j_call = "none"
    /\ j_ret = NoResult /\ j_after = <<>> /\ j_job = NoJob
    /\ IdleBut("J")

\* Job(scheduler=j_sched, directives_dict=...)
JNew ==
    /\ j_pc = "start"
    /\ \E directives_dict \in JDirectives, accepted \in BOOLEAN :
        LET r == job_init(j_sched, directives_dict, accepted)
        IN  /\ j_dict' = directives_dict
            /\ j_ret' = r.new
            /\ j_job' = r.job
    /\ j_call' = "Job"
    /\ j_pc' = "done"
    /\ UNCHANGED <<j_sched, j_params, j_extra, j_after, notJ>>

\* update_job_parameters_with_nodes(job_parameters, extra_parameters, j_sched)
JUpdateNodes ==
    /\ j_pc = "start"
    /\ \E job_parameters \in JParameters, extra_parameters \in JExtras :
        LET r == update_job_parameters_with_nodes(job_parameters, extra_parameters, j_sched)
        IN  /\ j_params' = job_parameters
            /\ j_extra' = extra_parameters
            /\ j_ret' = r
            /\ j_after' = IF r.ok THEN r.val ELSE job_parameters
    /\ j_call' = "update_job_parameters_with_nodes"
    /\ j_pc' = "done"
    /\ UNCHANGED <<j_sched, j_dict, j_job, notJ>>

JNext == JNew \/ JUpdateNodes

SpecJ == JInit /\ [][JNext]_vars

(***************************************************************************)
(* The structure checker: CheckStructure(structure), then check_positions  *)
(***************************************************************************)
QInit ==
    /\ q_pc = "checker" /\ q_atoms \in QStructures /\ q_messages = <<>>
    /\ q_ret = NoResult /\ q_calls = 0
    /\ IdleBut("Q")

\* checker.check_positions(): the messages are added to those of earlier calls
QCheckPositions ==
    /\ q_pc = "checker" /\ q_calls < MaxChecks
    /\ q_messages' = check_positions(q_atoms, q_messages)
    /\ q_ret' = Ok(q_messages')
    /\ q_calls' = q_calls + 1
    /\ UNCHANGED <<q_pc, q_atoms, notQ>>

QNext == QCheckPositions

SpecQ == QInit /\ [][QNext]_vars

(***************************************************************************)
(* validate_internal_mode called on a structure input set                  *)
(***************************************************************************)
VInit ==
    /\ v_pc = "start" /\ v_in \in SUBSET VKeys /\ v_ret = NoResult
    /\ IdleBut("V")

VValidateInternalMode ==
    /\ v_pc = "start"
    /\ v_ret' = validate_internal_mode(v_in)
    /\ v_pc' = "done"
    /\ UNCHANGED <<v_in, notV>>

VNext == VValidateInternalMode

SpecV == VInit /\ [][VNext]_vars

(***************************************************************************)
(* One Input, its raw sections left alone, accessed several times          *)
(***************************************************************************)
DInit ==
    /\ d_pc = "ready" /\ d_doc \in DDocuments /\ d_env \in DSurroundings
    /\ d_heap = <<>> /\ d_hist = <<>>
    /\ IdleBut("D")

DAccessed(acc, access) ==
    /\ d_pc = "ready" /\ Len(d_hist) < MaxAccesses
    /\ d_hist' = Append(d_hist, AccessRecord(acc, access))
    /\ d_heap' = access.heap
    /\ UNCHANGED <<d_pc, d_doc, d_env, notD>>

DStructure == DAccessed("structure", structure_object(d_heap, d_doc, d_env.found, d_env.n))

DIncar ==
    DAccessed("incar", incar_object(d_heap, d_doc, d_env.found, d_env.n, d_env.formatted))

DKpointsAccess == DAccessed("kpoints", kpoints_object(d_heap, d_doc, d_env.found, d_env.n))

DNext == DStructure \/ DIncar \/ DKpointsAccess

SpecD == DInit /\ [][DNext]_vars

(***************************************************************************)
(* Input(w_doc).write_inputs(directory) into an empty directory            *)
(***************************************************************************)
WInit ==
    /\ w_pc = "structure" /\ w_doc \in WDocuments /\ w_env \in WSurroundings
    /\ w_files = <<>> /\ w_res = INoResult /\ w_at = "none"
    /\ IdleBut("W")

WWritten(name, written) ==
    /\ w_files' = written.files
    /\ w_res' = written.res
    /\ w_pc' = IF written.res.ok THEN section_after(name) ELSE "failed"
    /\ w_at' = name
    /\ UNCHANGED <<w_doc, w_env, notW>>

WBlock(name, resolved) ==
    /\ w_pc = name
    /\ WWritten(name, write_block(w_doc, name, resolved, w_env.writable, w_files))

\* poscar = Poscar(self.structure); poscar.write_file(POSCAR)
WStructure == WBlock("structure", input_structure(w_doc, w_env.found, w_env.n).res)

\* incar = self.incar; incar.write_file(INCAR)
WIncar ==
    WBlock("incar", input_incar(w_doc, w_env.found, w_env.n, w_env.formatted).res)

\* kpoints = self.kpoints; kpoints.write_file(KPOINTS)
WKpointsBlock == WBlock("kpoints", input_kpoints(w_doc, w_env.found, w_env.n).res)

WNext == WStructure \/ WIncar \/ WKpointsBlock

SpecW == WInit /\ [][WNext]_vars

(***************************************************************************)
(* The Input aggregator: construction, then one access                     *)
(***************************************************************************)
IInit ==
    /\ i_pc = "document" /\ i_doc \in IDocuments
    /\ i_new = NoResult /\ i_acc = "none" /\ i_arg = FALSE /\ i_calls = <<>>
    /\ i_res = INoResult
    /\ IdleBut("I")

\* Input(i_doc): the three sections are looked up with dict.get
IConstruct ==
    /\ i_pc = "document"
    /\ i_new' = Ok(<<get(i_doc, "structure").k, get(i_doc, "incar").k,
                     get(i_doc, "kpoints").k>>)
    /\ i_pc' = "ready"
    /\ UNCHANGED <<i_doc, i_acc, i_arg, i_calls, i_res, notI>>

IAccessed(acc, outcome) ==
    /\ i_acc' = acc
    /\ i_res' = outcome.res
    /\ i_calls' = outcome.calls
    /\ i_pc' = "accessed"
    /\ UNCHANGED <<i_doc, i_new, i_arg, notI>>

\* Input.structure; the database finds the code or not, the generator places n sites
IStructure ==
    /\ i_pc = "ready"
    /\ \E found \in BOOLEAN, n \in 1..MaxCoords :
        IAccessed("structure", input_structure(i_doc, found, n))

\* Input.incar; the magmom entry fits the structure or not
IIncar ==
    /\ i_pc = "ready"
    /\ \E found \in BOOLEAN, n \in 1..MaxCoords, formatted \in BOOLEAN :
        IAccessed("incar", input_incar(i_doc, found, n, formatted))

\* Input.kpoints
IKpointsAccess ==
    /\ i_pc = "ready"
    /\ \E found \in BOOLEAN, n \in 1..MaxCoords :
        IAccessed("kpoints", input_kpoints(i_doc, found, n))

\* kpoints_from_dictionary(kpoints section, structure), with a structure or None
IKpointsFromDictionary ==
    /\ i_pc = "ready" /\ i_doc.kpoints.k = "dict"
    /\ \E has_structure \in BOOLEAN :
        /\ i_arg' = has_structure
        /\ i_res' = Lift(kpoints_from_dictionary(i_doc.kpoints.d, has_structure))
    /\ i_acc' = "kpoints_from_dictionary"
    /\ i_calls' = <<>>
    /\ i_pc' = "accessed"
    /\ UNCHANGED <<i_doc, i_new, notI>>

INext == IConstruct \/ IStructure \/ IIncar \/ IKpointsAccess \/ IKpointsFromDictionary

SpecI == IInit /\ [][INext]_vars



KInit ==
    /\ k_pc = "start" /\ k_in \in KModeInputs /\ k_ret = NoResult
    /\ IdleBut("K")

\* BaseKpoints(mode=k_in, ...): the mode validator runs
KCheckMode ==
    /\ k_pc = "start"
    /\ k_ret' = check_mode_kp(k_in)
    /\ k_pc' = "done"
    /\ UNCHANGED <<k_in, notK>>

KNext == KCheckMode

SpecK == KInit /\ [][KNext]_vars

\* C1: check_mode maps a mode string, compared case-insensitively, to gamma if it
\* starts with g, else to monkhorst if it starts with m, else to surface if it
\* equals surface, else to line if it starts with line, else to autoline if it
\* equals autoline, and rejects every other string; each canonical tag maps to
\* itself, monkhorst-pack maps to monkhorst and xyz is rejected.
C1_KModeNormalisation ==
    k_pc = "done" =>
        LET l == lower(k_in)
            g == Len(l) >= 1 /\ l[1] = "g"
            m == Len(l) >= 1 /\ l[1] = "m"
            ln == Len(l) >= 4 /\ <<l[1], l[2], l[3], l[4]>> = S_line
        IN  /\ g => k_ret = Ok(S_gamma)
            /\ (~g /\ m) => k_ret = Ok(S_monkhorst)
            /\ (~g /\ ~m /\ l = S_surface) => k_ret = Ok(S_surface)
            /\ (~g /\ ~m /\ ln) => k_ret = Ok(S_line)
            /\ (~g /\ ~m /\ l = S_autoline) => k_ret = Ok(S_autoline)
            /\ (~g /\ ~m /\ ~ln /\ l \notin {S_surface, S_autoline}) => ~k_ret.ok
            /\ k_in \in KCanonical => k_ret = Ok(k_in)
            /\ k_in = S_monkhorst_pack => k_ret = Ok(S_monkhorst)
            /\ k_in = S_xyz => ~k_ret.ok

C1_Witness ==
    /\ k_pc = "done"
    /\ k_in = upper(S_monkhorst_pack)
    /\ k_ret = Ok(S_monkhorst)

SInit ==
    /\ s_pc = "start" /\ s_call = "none" /\ s_model = NotBuilt /\ s_res = NoResult
    /\ s_in \in SInputs
    /\ IdleBut("S")

SValidated(call, built) ==
    /\ s_pc = "start"
    /\ s_call' = call
    /\ s_model' = built
    /\ s_pc' = IF built.ok THEN "built" ELSE "failed"
    /\ UNCHANGED <<s_in, s_res, notS>>

\* structure_model_from_input_dict(s_in)
SFromInputDict ==
    SValidated("structure_model_from_input_dict", structure_model_from_input_dict(s_in))

\* ExternalStructure.validate(s_in)
SValidateExternal == SValidated("ExternalStructure", validate_external(s_in))

\* ManualStructure.validate(s_in)
SValidateManual == SValidated("ManualStructure", validate_manual(s_in))

\* PrototypeStructure.validate(s_in)
SValidatePrototype == SValidated("PrototypeStructure", validate_prototype(s_in))

SAccessed(res) ==
    /\ s_res' = res
    /\ s_pc' = "accessed"
    /\ UNCHANGED <<s_in, s_call, s_model, notS>>

\* model.structure of an ExternalStructure; the database lookup finds the code or not
SExternalStructure ==
    /\ s_pc = "built" /\ s_model.m.cls = "ExternalStructure"
    /\ \E found \in BOOLEAN : SAccessed(external_structure(s_model.m, found))

\* model.structure of a ManualStructure
SManualStructure ==
    /\ s_pc = "built" /\ s_model.m.cls = "ManualStructure"
    /\ SAccessed(manual_structure(s_model.m))

\* model.structure of a PrototypeStructure; the generator places n sites
SPrototypeStructure ==
    /\ s_pc = "built" /\ s_model.m.cls = "PrototypeStructure"
    /\ \E n \in 1..MaxCoords : SAccessed(prototype_structure(s_model.m, n))

SNext ==
    \/ SFromInputDict \/ SValidateExternal \/ SValidateManual \/ SValidatePrototype
    \/ SExternalStructure \/ SManualStructure \/ SPrototypeStructure

SpecS == SInit /\ [][SNext]_vars

(***************************************************************************)
(* format_species on its own                                               *)
(***************************************************************************)
FInit ==
    /\ f_pc = "start" /\ f_in \in FInputs /\ f_ret = NoResult
    /\ IdleBut("F")

\* format_species(f_in)
FFormatSpecies ==
    /\ f_pc = "start"
    /\ f_ret' = format_species(f_in)
    /\ f_pc' = "done"
    /\ UNCHANGED <<f_in, notF>>

FNext == FFormatSpecies

SpecF == FInit /\ [][FNext]_vars

(***************************************************************************)
(* The classifiers, each called on the same entry                          *)
(***************************************************************************)
CInit ==
    /\ c_in \in CInputs
    /\ c_index = NoResult /\ c_species = NoResult
    /\ c_range = NoResult /\ c_collinear = NoResult
    /\ IdleBut("C")

Called(r) == r.err # "not called"

\* is_index_dict(c_in)
CIsIndexDict ==
    /\ c_in.t # "idle" /\ ~Called(c_index)
    /\ c_index' = is_index_dict(c_in)
    /\ UNCHANGED <<c_in, c_species, c_range, c_collinear, notC>>

\* is_species_dict(c_in)
CIsSpeciesDict ==
    /\ c_in.t # "idle" /\ ~Called(c_species)
    /\ c_species' = is_species_dict(c_in)
    /\ UNCHANGED <<c_in, c_index, c_range, c_collinear, notC>>

\* is_range_list(c_in)
CIsRangeList ==
    /\ c_in.t # "idle" /\ ~Called(c_range)
    /\ c_range' = is_range_list(c_in)
    /\ UNCHANGED <<c_in, c_index, c_species, c_collinear, notC>>

\* is_collinear(c_in)
CIsCollinear ==
    /\ c_in.t # "idle" /\ ~Called(c_collinear)
    /\ c_collinear' = is_collinear(c_in)
    /\ UNCHANGED <<c_in, c_index, c_species, c_range, notC>>

CNext == CIsIndexDict \/ CIsSpeciesDict \/ CIsRangeList \/ CIsCollinear

SpecC == CInit /\ [][CNext]_vars

(***************************************************************************)
(* Claims about the structure section                                      *)
(***************************************************************************)
MustProvide == "ValueError: Must provide either file, string, or code"
OnlyOne == "ValueError: Must provide only one of file, string, or code"

\* the section's mode is a string that the prefix rule accepts as tag
ModeIs(tag) ==
    /\ s_in.mode.k = "str"
    /\ LET l == lower(s_in.mode.v)
           ext == Len(l) >= 3 /\ <<l[1], l[2], l[3]>> = <<"e", "x", "t">>
           pro == Len(l) >= 3 /\ <<l[1], l[2], l[3]>> = <<"p", "r", "o">>
       IN  CASE tag = S_external -> ext
             [] tag = S_prototype -> ~ext /\ pro
             [] tag = S_manual -> ~ext /\ ~pro /\ l = S_manual

ModeAccepted == ModeIs(S_external) \/ ModeIs(S_prototype) \/ ModeIs(S_manual)

\* C2: the structure mode, compared case-insensitively, is external if it starts
\* with ext, prototype if it starts with pro, manual only if it equals manual;
\* every other string is rejected when the model is constructed, no mode string
\* falls through to a default, and structure_model_from_input_dict hands an
\* accepted mode to exactly one of the three variant models (a section without
\* an accepted mode reaches none of them).
C2_StructureModeDispatch ==
    s_pc \in {"built", "failed", "accessed"} =>
        /\ \A tag \in {S_external, S_prototype, S_manual} :
               (ModeIs(tag) /\ s_model.ok) => s_model.m.mode = tag
        /\ (s_in.mode.k = "str" /\ ~ModeAccepted) =>
               (~s_model.ok /\ s_model.err = "ValueError: Invalid mode")
        /\ s_call = "structure_model_from_input_dict" =>
               /\ ModeIs(S_external) => s_model.by = "ExternalStructure"
               /\ ModeIs(S_prototype) => s_model.by = "PrototypeStructure"
               /\ ModeIs(S_manual) => s_model.by = "ManualStructure"
               /\ ~ModeAccepted => (~s_model.ok /\ s_model.by = "BaseStructure")

C2_Witness ==
    /\ s_pc = "built"
    /\ s_call = "structure_model_from_input_dict"
    /\ s_in.mode = Str(upper(S_prototype))
    /\ s_model.ok
    /\ s_model.m.cls = "PrototypeStructure"
    /\ s_model.m.mode = S_prototype

\* the sources of the validated external model that are set
SourcesSet == { f \in {"file", "string", "code"} : Truthy(s_model.m[f]) }

\* C3: obtaining the structure of an External model in which more than one of
\* file, string and code is set raises the 'must provide only one' error and
\* returns no structure, for every pair of sources.
C3_AmbiguousSourcesRejected ==
    (/\ s_pc = "accessed"
     /\ s_model.m.cls = "ExternalStructure"
     /\ Cardinality(SourcesSet) > 1)
    => (~s_res.ok /\ s_res.err = OnlyOne)

\* an external-mode section: handed to ExternalStructure, its mode absent or external
ExternalSection ==
    /\ s_model.by = "ExternalStructure"
    /\ s_in.mode.k = "absent" \/ ModeIs(S_external)

\* none of file, string and code is set: each is absent, null or empty
NoSourceSet == ~Truthy(s_in.file) /\ ~Truthy(s_in.string) /\ ~Truthy(s_in.code)
NoSourceKey == s_in.file.k = "absent" /\ s_in.string.k = "absent" /\ s_in.code.k = "absent"

NothingElseTruthy ==
    /\ ~Truthy(s_in.mode) /\ ~Truthy(s_in.species) /\ ~Truthy(s_in.coords)
    /\ s_in.lattice = "absent" /\ ~Truthy(s_in.prototype)

SourceValidationErrors ==
    { "ValidationError: file: Input should be a valid string",
      "ValidationError: string: Input should be a valid string",
      "ValidationError: code: Input should be a valid string",
      "ValueError: Invalid POSCAR file",
      "ValueError: Invalid POSCAR string",
      "ValueError: Invalid Materials Project code" }

C5_CodeSyntax ==
    (/\ s_pc \in {"built", "failed"}
     /\ ExternalSection
     /\ s_in.code.k = "str" /\ s_in.file.k = "absent" /\ s_in.string.k = "absent")
    => LET c == s_in.code.v
           digits(s) == s # <<>> /\ \A i \in 1..Len(s) : s[i] \in Digits
           mp == Len(c) > 3 /\ <<c[1], c[2], c[3]>> = <<"m", "p", "-">>
                   /\ digits(SubSeq(c, 4, Len(c)))
       IN  s_model.ok <=> (mp \/ digits(c))

\* the number of species a list of symbols or of {symbol: count} maps stands for
RECURSIVE ExpandedCount(_)
ExpandedCount(v) ==
    IF v = <<>> THEN 0
    ELSE (IF Head(v).t = "str" THEN 1
          ELSE IF Head(v).items[1].v > 0 THEN Head(v).items[1].v ELSE 0)
         + ExpandedCount(Tail(v))

\* C7: for a Manual model, when the number of coordinates differs from the number
\* of species after expansion, obtaining the structure raises and yields no
\* structure; when they are equal the structure has exactly that many sites, the
\* i-th at the i-th coordinate.
C7_ManualSiteCount ==
    (s_pc = "accessed" /\ s_model.m.cls = "ManualStructure") =>
        LET nsp == ExpandedCount(s_in.species.v)
            nco == Len(s_in.coords.v)
        IN  /\ nsp # nco => ~s_res.ok
            /\ nsp = nco =>
                   /\ s_res.ok
                   /\ Len(s_res.val) = nco
                   /\ \A i \in 1..nco : s_res.val[i].coords = s_in.coords.v[i]

C7_Witness ==
    /\ s_pc = "accessed"
    /\ s_model.m.cls = "ManualStructure"
    /\ s_in.species = PyList(<<SDict(<<Item("str", "Na", "int", 2)>>),
                               SDict(<<Item("str", "Cl", "int", 1)>>)>>)
    /\ Len(s_in.coords.v) = 3
    /\ s_res.ok
    /\ Len(s_res.val) = 3

(***************************************************************************)
(* Claims about format_species                                             *)
(***************************************************************************)
\* a single-entry {symbol: n} map with an integer n >= 0
CountMap(e) ==
    /\ e.t = "dict" /\ Len(e.items) = 1
    /\ e.items[1].kt = "str" /\ e.items[1].vt = "int" /\ e.items[1].v >= 0

\* the map of the list v that the j-th expanded species comes from
MapOf(v, j) ==
    CHOOSE i \in 1..Len(v) :
        ExpandedCount(SubSeq(v, 1, i - 1)) < j /\ j <= ExpandedCount(SubSeq(v, 1, i))

\* C6: format_species applied to a (non-empty) list of single-entry {symbol: n}
\* maps with integer n >= 0 returns n copies of each symbol, concatenated in list
\* order; applied to a (non-empty) list of strings it returns the list unchanged;
\* whenever it returns, every element of the result is a string.
C6_FormatSpecies ==
    (f_pc = "done" /\ f_in.k = "list") =>
        LET v == f_in.v
        IN  /\ (v # <<>> /\ \A i \in 1..Len(v) : CountMap(v[i])) =>
                   /\ f_ret.ok
                   /\ Len(f_ret.val) = ExpandedCount(v)
                   /\ \A j \in 1..Len(f_ret.val) :
                          f_ret.val[j] = SStr(v[MapOf(v, j)].items[1].k)
            /\ (v # <<>> /\ \A i \in 1..Len(v) : v[i].t = "str") =>
                   (f_ret.ok /\ f_ret.val = v)
            /\ f_ret.ok => \A j \in 1..Len(f_ret.val) : f_ret.val[j].t = "str"

(***************************************************************************)
(* Claims about the shape classifiers                                      *)
(***************************************************************************)
Returned(r, b) == r.ok /\ r.val = b

\* C8: for any single input, at most one of is_index_dict, is_species_dict and
\* is_range_list returns true.
C8_ClassifiersExclusive ==
    Cardinality({ r \in {"index", "species", "range"} :
        Returned(CASE r = "index" -> c_index
                   [] r = "species" -> c_species
                   [] r = "range" -> c_range, TRUE) }) <= 1

\* the values of an entry: of a mapping's items, of a range list's elements
EntryValues == { c_in.v[i].val : i \in 1..Len(c_in.v) }

\* the shapes as the specification defines them
IsIndexMap ==
    /\ c_in.t = "dict"
    /\ \A i \in 1..Len(c_in.v) : c_in.v[i].kt = "int" /\ is_number_or_list(c_in.v[i].val)
IsSpeciesMap ==
    /\ c_in.t = "dict"
    /\ \A i \in 1..Len(c_in.v) : c_in.v[i].kt = "str" /\ is_number_or_list(c_in.v[i].val)
IsRangeList ==
    /\ c_in.t = "list"
    /\ \A i \in 1..Len(c_in.v) :
           c_in.v[i].et = "dict" /\ {"start", "stop", "value"} \subseteq c_in.v[i].keys

\* C9: on a (non-empty) entry of one of the three shapes whose values are numbers
\* or lists, is_collinear raises if and only if the entry mixes scalar and list
\* values, returns true if and only if all values are scalar, and returns false if
\* and only if all values are lists of one equal length; on an entry of none of
\* the shapes it raises.
C9_Collinear ==
    (Called(c_collinear) /\ c_in.t \in {"dict", "list"}) =>
        LET shaped == IsIndexMap \/ IsSpeciesMap \/ IsRangeList
            scalars == \A val \in EntryValues : is_number(val)
            lists == \A val \in EntryValues : val.vt = "list"
            equal == \A a, b \in EntryValues : a.len = b.len
            mixed == (\E val \in EntryValues : is_number(val))
                         /\ (\E val \in EntryValues : val.vt = "list")
        IN  /\ ~shaped => ~c_collinear.ok
            /\ (/\ shaped /\ c_in.v # <<>>
                /\ \A val \in EntryValues : is_number_or_list(val)) =>
                   /\ ~c_collinear.ok <=> mixed
                   /\ Returned(c_collinear, TRUE) <=> scalars
                   /\ Returned(c_collinear, FALSE) <=> (lists /\ equal)

\* C10: is_range_list never raises, and returns true if and only if its argument
\* is a list whose every element is a mapping holding start, stop and value.
C10_RangeList ==
    Called(c_range) =>
        /\ c_range.ok
        /\ c_range.val = IsRangeList

(***************************************************************************)
(* Claims about the kpoints section                                        *)
(***************************************************************************)
\* the section's mode is a string that BaseKpoints.check_mode turns into a tag of T
KModeIn(T) ==
    /\ p_in.mode.k = "str"
    /\ check_mode_kp(p_in.mode.v).ok
    /\ check_mode_kp(p_in.mode.v).val \in T

\* the section went through kpoints_model_from_dictionary
ViaDictionary ==
    /\ p_pc \in {"built", "failed", "realised"}
    /\ p_call \in {"kpoints_model_from_dictionary", "kpoints_from_dictionary"}

IsWholeNumber(x) == x.t = "int"

\* C11: for a section whose mode normalises to gamma or monkhorst,
\* kpoints_model_from_dictionary accepts a spacing that is a 3-vector of
\* non-negative integers, accepts a spacing that is one non-negative scalar, and
\* rejects the section when the scalar or a component of the vector is negative.
C11_GridSpacing ==
    (ViaDictionary /\ KModeIn({S_gamma, S_monkhorst}) /\ p_in.shift = Absent) =>
        /\ ( /\ p_in.spacing.k = "list" /\ Len(p_in.spacing.v) = 3
             /\ \A i \in 1..3 : IsWholeNumber(p_in.spacing.v[i]) /\ p_in.spacing.v[i].v >= 0 )
           => p_model.ok
        /\ ( /\ p_in.spacing.k = "num" /\ IsWholeNumber(num(p_in.spacing))
             /\ num(p_in.spacing).v >= 0 )
           => p_model.ok
        /\ (p_in.spacing.k = "num" /\ num(p_in.spacing).v < 0) => ~p_model.ok
        /\ ( /\ p_in.spacing.k = "list"
             /\ \E i \in 1..Len(p_in.spacing.v) : p_in.spacing.v[i].v < 0 )
           => ~p_model.ok

\* a Line or AutoLine model was constructed from the section
LineOrAutoLineBuilt ==
    /\ p_pc \in {"built", "realised"}
    /\ p_model.ok
    /\ p_model.m.cls \in {"LineKpoints", "AutoLineKpoints"}

\* C12: a Line or AutoLine model is constructed only from a spacing that is a
\* whole number >= 1; the spacings 0, negative and fractional (0.1) are rejected.
C12_LineSpacing ==
    LineOrAutoLineBuilt =>
        /\ p_in.spacing.k = "num"
        /\ num(p_in.spacing).v % 10 = 0
        /\ num(p_in.spacing).v >= 10

\* LineKpoints validated the section
LineValidated ==
    /\ p_pc \in {"built", "failed", "realised"}
    /\ \/ p_call = "LineKpoints"
       \/ ViaDictionary /\ p_model.by = "LineKpoints"

BadPaths(f) ==
    f.k = "list" /\ (Len(f.v) < 2 \/ \E i \in 1..Len(f.v) : Len(f.v[i]) # 3)

BadLabels(f) ==
    f.k = "list" /\ (Len(f.v) < 2 \/ \E i \in 1..Len(f.v) : f.v[i].t # "str")

\* C13: the construction of a Line model is rejected when paths has fewer than 2
\* entries, a path does not have exactly 3 coordinates, labels has fewer than 2
\* entries or a label is not a string; 2 paths with 1 label are rejected.
C13_LinePathsLabels ==
    LineValidated =>
        /\ (BadPaths(p_in.paths) \/ BadLabels(p_in.labels)) => ~p_model.ok
        /\ ( /\ p_in.paths.k = "list" /\ Len(p_in.paths.v) = 2
             /\ p_in.labels.k = "list" /\ Len(p_in.labels.v) = 1 )
           => ~p_model.ok /\ p_model.err = "ValidationError"

C13_Witness ==
    /\ p_pc = "failed" /\ p_call = "LineKpoints"
    /\ p_in.paths = PyList(<<P_G, P_X>>)
    /\ p_in.labels = PyList(<<SStr("G")>>)
    /\ p_model.errors = {<<"labels", "Number of labels must be greater than 1">>}

\* a Line model was realised
LineRealised ==
    /\ p_pc = "realised"
    /\ p_model.ok /\ p_model.m.cls = "LineKpoints"

\* C14: no sampling description is produced from a Line section whose paths and
\* labels differ in length: when construction accepted it, kpoints() raises the
\* length-mismatch error; when the lengths are equal, the description pairs the
\* i-th path with the i-th label, in order.
C14_LineRealisation ==
    LineRealised =>
        LET paths == p_in.paths.v
            labels == p_in.labels.v
        IN  IF Len(paths) # Len(labels)
            THEN p_res = Raise("ValueError: Dimensions of labels and paths do not match")
            ELSE /\ p_res.ok
                 /\ Len(p_res.val.points) = Len(paths)
                 /\ \A i \in 1..Len(paths) :
                       p_res.val.points[i] = [path |-> paths[i], label |-> labels[i].s]

C14_Witness ==
    /\ LineRealised
    /\ p_in.paths = PyList(<<P_G, P_X, P_G>>)
    /\ p_in.labels = PyList(<<SStr("G"), SStr("X")>>)
    /\ ~p_res.ok

\* C15: for every model that kpoints_model_from_dictionary returns,
\* requires_structure is true exactly for the Surface and AutoLine variants, false
\* for Gamma, Monkhorst and Line, and is determined by the normalised mode.
C15_RequiresStructure ==
    (ViaDictionary /\ p_model.ok /\ p_req # NoResult) =>
        /\ p_req.ok
        /\ p_req.val = (p_model.m.cls \in {"SurfaceKpoints", "AutoLineKpoints"})
        /\ p_model.m.cls \in {"GammaKpoints", "MonkhorstKpoints", "LineKpoints"}
              => p_req.val = FALSE
        /\ p_req.val = KModeIn({S_surface, S_autoline})
        /\ p_model.m.cls = mode_model_map(check_mode_kp(p_in.mode.v).val)

C15_Witness ==
    /\ p_pc = "built" /\ p_call = "kpoints_model_from_dictionary"
    /\ p_model.ok /\ p_model.m.cls = "AutoLineKpoints"
    /\ p_in.mode = Str(upper(S_autoline))
    /\ p_req = Ok(TRUE)

(***************************************************************************)
(* Claims about the Input aggregator                                       *)
(***************************************************************************)
Accessed(acc) == i_pc = "accessed" /\ i_acc = acc

PresentKeys == { name \in {"structure", "incar", "kpoints"} : i_doc[name].k # "absent" }

\* C16: an access to Input.structure, Input.incar or Input.kpoints whose section
\* is absent from the document raises the missing-section error naming that
\* section and listing the keys present, never returns a value, and constructing
\* the Input raises for no document.
C16_MissingSection ==
    /\ i_pc \in {"ready", "accessed"} => i_new.ok
    /\ \A acc \in {"structure", "incar", "kpoints"} :
          (Accessed(acc) /\ i_doc[acc].k = "absent") =>
              /\ ~i_res.ok
              /\ i_res.err = "ValueError: No dictionary found in input file"
              /\ i_res.section = acc
              /\ i_res.keys = PresentKeys
              /\ i_calls = <<>>

C16_Witness ==
    /\ Accessed("incar")
    /\ i_doc.incar.k = "absent" /\ i_doc.structure.k = "dict" /\ i_doc.kpoints.k = "dict"
    /\ i_res = IMissing("incar", {"structure", "kpoints"})
    /\ i_new.ok

\* the kpoints section is one that validates and realises, with the given tags
GoodKpoints(T) ==
    /\ i_doc.kpoints.k = "dict"
    /\ i_doc.kpoints.d.mode.k = "str"
    /\ check_mode_kp(i_doc.kpoints.d.mode.v).val \in T
    /\ i_doc.kpoints.d.spacing \in { PyList(<<PInt(1), PInt(1), PInt(1)>>), PNum(PInt(1)) }
    /\ i_doc.kpoints.d.spacing.k = "list" <=>
          check_mode_kp(i_doc.kpoints.d.mode.v).val \in {S_gamma, S_monkhorst}
    /\ i_doc.kpoints.d.labels \in {Absent, PyList(<<SStr("G"), SStr("X")>>)}

\* the structure section is absent, or what resolving it raises
StructureFails == \A found \in BOOLEAN, n \in 1..MaxCoords :
                     ~input_structure(i_doc, found, n).res.ok
StructureError == { input_structure(i_doc, found, n).res :
                      found \in BOOLEAN, n \in 1..MaxCoords }

IncarValid ==
    /\ i_doc.incar.k = "dict"
    /\ i_doc.incar.d.magmom # "invalid" /\ i_doc.incar.d.tags_ok

\* what holds of Input.kpoints, Input.structure and kpoints_from_dictionary
LazySections ==
    /\ (Accessed("kpoints") /\ GoodKpoints({S_gamma, S_monkhorst, S_line})) =>
          i_res.ok /\ \A j \in 1..Len(i_calls) : i_calls[j] # "Input.structure"
    /\ (Accessed("kpoints") /\ GoodKpoints({S_surface, S_autoline})) =>
          /\ i_calls[2] = "Input.structure"
          /\ StructureFails => i_res \in StructureError /\ ~i_res.ok
          /\ i_res.ok \/ i_res \in StructureError
    /\ Accessed("structure") =>
          /\ \A j \in 1..Len(i_calls) :
                i_calls[j] \in {"structure_model_from_input_dict", "structure_model.structure"}
          /\ i_res \in StructureError
    /\ (Accessed("kpoints_from_dictionary")
        /\ GoodKpoints({S_gamma, S_monkhorst, S_line, S_surface, S_autoline})) =>
          /\ i_arg => i_res.ok
          /\ ~i_arg =>
                IF GoodKpoints({S_surface, S_autoline})
                THEN i_res = IRaise("ValueError: Kpoints model requires a structure")
                ELSE i_res.ok

\* C17 as stated: Input.kpoints, Input.structure and kpoints_from_dictionary
\* consult the structure exactly when they depend on it, and Input.incar resolves
\* the structure before anything else: with an incar section and no structure
\* section it fails with the missing-structure error.
C17_StructureFirst ==
    /\ LazySections
    /\ (Accessed("incar") /\ i_doc.incar.k = "dict" /\ i_doc.structure.k = "absent") =>
          i_res = IMissing("structure", PresentKeys)

\* C17: Input.kpoints succeeds with an absent or invalid structure section for
\* the modes gamma, monkhorst and line and fails with the structure's error for
\* surface and autoline; Input.structure consults the structure section only;
\* kpoints_from_dictionary accepts a structure for all five modes and raises
\* without one only for surface and autoline. Input.incar first validates the
\* incar section and, only when it is valid, resolves the structure before it
\* formats the incar: it never succeeds without a structure, failing with the
\* structure's error when the incar section is valid and with the incar
\* section's validation error otherwise.
C17_LazyResolution ==
    /\ LazySections
    /\ (Accessed("incar") /\ i_doc.incar.k = "dict") =>
          /\ i_calls[1] = "IncarModel"
          /\ StructureFails => ~i_res.ok
          /\ IF IncarValid
             THEN /\ i_calls[2] = "Input.structure"
                  /\ StructureFails => i_res \in StructureError
                  /\ i_res.ok => i_calls[Len(i_calls)] = "incar_model.incar"
             ELSE /\ i_res = IRaise("ValidationError: Invalid INCAR dictionary")
                  /\ i_calls = <<"IncarModel">>

C17_Witness ==
    /\ Accessed("incar") /\ IncarValid
    /\ i_doc.structure.k = "absent"
    /\ i_res = IMissing("structure", PresentKeys)
    /\ i_calls = <<"IncarModel", "Input.structure">>

(***************************************************************************)
(* Claims about the per-site properties                                    *)
(***************************************************************************)
\* the last call returned, set the property on the sites of sel (0-based) and on
\* no other, and changed no other property, species or the number of sites
SetExactlyOn(sel) ==
    /\ a_ret.ok
    /\ Len(a_sites) = Len(a_prev)
    /\ \A i \in 1..Len(a_sites) :
        /\ a_sites[i].species = a_prev[i].species
        /\ a_sites[i].props[a_op.name] =
              IF (i - 1) \in sel THEN <<a_op.value>> ELSE a_prev[i].props[a_op.name]
        /\ \A other \in PropertyNames \ {a_op.name} :
              a_sites[i].props[other] = a_prev[i].props[other]

\* the calls of the log that selected the 0-based site i for the property name
Writers(i, name) ==
    { j \in 1..Len(a_log) : a_log[j].name = name /\ i \in a_log[j].sel }

Last(S) == CHOOSE j \in S : \A k \in S : k <= j

\* C18: assign_site_property_by_species sets the named property on every site of
\* the given species and changes nothing else; so after a sequence of assign
\* calls each site's property holds the value of the last call that selected the
\* site, and is unset when no call did.
C18_BySpecies ==
    /\ a_op.kind = "species" =>
          SetExactlyOn({ i \in 0..(Len(a_prev) - 1) : a_prev[i + 1].species = a_op.species })
    /\ a_pc = "assign" =>
          \A i \in 1..Len(a_sites), name \in PropertyNames :
              a_sites[i].props[name] =
                  IF Writers(i - 1, name) = {} THEN <<>>
                  ELSE <<a_log[Last(Writers(i - 1, name))].value>>

C18_Witness ==
    /\ a_pc = "assign" /\ a_op = BySpecies("Fe", "magmom", 2)
    /\ Len(a_log) = 2 /\ a_log[1] = [sel |-> {0, 2}, name |-> "magmom", value |-> 1]
    /\ a_log[2].sel = {0, 2}
    /\ a_sites = << [species |-> "Fe", props |-> [magmom |-> <<2>>, charge |-> <<>>]],
                    [species |-> "O", props |-> NoProps],
                    [species |-> "Fe", props |-> [magmom |-> <<2>>, charge |-> <<>>]] >>

\* C19: assign_site_property_by_index with an index i of 0..n-1 sets the property
\* on site i only; with any other index, a negative one included, it raises an
\* index error and leaves the structure unchanged.
C19_ByIndex ==
    a_op.kind = "index" =>
        IF a_op.index >= 0 /\ a_op.index < Len(a_prev)
        THEN SetExactlyOn({a_op.index})
        ELSE /\ a_ret = Raise("IndexError: list index out of range")
             /\ a_sites = a_prev

\* the slice of the last call
Start == a_op.range.start
Stop == a_op.range.stop
Step == IF a_op.range.step = NoneValue THEN 1 ELSE a_op.range.step[1]
Clamp(x, n) == Max2(0, Min2(x, n))

\* C20 as stated: for a step that is absent or positive, the sites set are those
\* of the half-open range from start to stop, both clamped to [0, n].
C20_RangeClamped ==
    (a_op.kind = "range" /\ Start # NoneValue /\ Stop # NoneValue /\ Step > 0) =>
        SetExactlyOn({ i \in 0..(Len(a_prev) - 1) :
                         /\ i >= Clamp(Start[1], Len(a_prev))
                         /\ i < Clamp(Stop[1], Len(a_prev))
                         /\ (i - Clamp(Start[1], Len(a_prev))) % Step = 0 })

\* a bound of the slice counted from the end when negative, None taking the value d
FromEnd(b, n, d) == IF b = NoneValue THEN d ELSE IF b[1] < 0 THEN b[1] + n ELSE b[1]

Evens == { i \in 0..(FluoriteSites - 1) : i % 2 = 0 }

\* C20: assign_site_property_by_range with a step that is absent (1) or positive
\* sets the property on exactly the sites i with start <= i < stop and i - start
\* a multiple of the step, where an absent start is 0, an absent stop is n, a
\* negative bound counts from the end of the structure (n + bound) and bounds
\* beyond the structure raise no error; with a negative step it sets the sites i
\* with stop < i <= start walking down from start (absent start: the last site,
\* absent stop: down to the first); with step 0 it raises and changes nothing.
\* It leaves every other site unchanged, and the calls (0, 12, 2) and (1, 12, 2)
\* on 12 sites give alternating values.
C20_RangeSlice ==
    a_op.kind = "range" =>
        LET n == Len(a_prev)
        IN  /\ Step = 0 =>
                a_ret = Raise("ValueError: slice step cannot be zero") /\ a_sites = a_prev
            /\ Step > 0 =>
                LET first == Max2(FromEnd(Start, n, 0), 0)
                IN  SetExactlyOn({ i \in 0..(n - 1) :
                        /\ i >= first
                        /\ i < FromEnd(Stop, n, n)
                        /\ (i - first) % Step = 0 })
            /\ Step < 0 =>
                LET first == Min2(FromEnd(Start, n, n - 1), n - 1)
                    bound == IF Stop = NoneValue THEN -1 ELSE FromEnd(Stop, n, -1)
                IN  SetExactlyOn({ i \in 0..(n - 1) :
                        /\ i <= first
                        /\ i > bound
                        /\ (first - i) % (-Step) = 0 })
            /\ ( /\ n = FluoriteSites /\ a_pc = "done" /\ Len(a_log) = 2
                 /\ a_log[1].sel = Evens
                 /\ a_op.range = slice(IntValue(1), IntValue(FluoriteSites), IntValue(2)) )
               => \A i \in 1..n :
                     a_sites[i].props.magmom =
                        IF (i - 1) % 2 = 0 THEN <<a_log[1].value>> ELSE <<a_op.value>>

C20_Witness ==
    /\ a_pc = "done" /\ Len(a_sites) = FluoriteSites
    /\ a_log[1] = [sel |-> Evens, name |-> "magmom", value |-> 2]
    /\ a_op = ByRange(slice(IntValue(1), IntValue(FluoriteSites), IntValue(2)), "magmom", 1)
    /\ a_ret.ok
    /\ \A i \in 1..FluoriteSites :
          a_sites[i].props.magmom = IF (i - 1) % 2 = 0 THEN <<2>> ELSE <<1>>

(***************************************************************************)
(* Claims about reading the per-site properties and formatting the incar   *)
(***************************************************************************)
\* every site was assigned by its own index: each call of the log selected one
\* site, and every site was selected
EverySiteByIndex ==
    /\ \A j \in 1..Len(a_log) : a_log[j].name = "magmom" /\ Cardinality(a_log[j].sel) = 1
    /\ \A i \in 1..Len(a_prev) : Writers(i - 1, "magmom") # {}

\* C21: site_properties_from_structure returns one entry per site, in site
\* order: the site's value of the named property, or the default where it is
\* unset; the structure is not modified. After every site was assigned a value by
\* its index, reading back returns the assigned values in site order.
C21_ReadProperties ==
    a_op.kind = "read" =>
        /\ a_ret.ok
        /\ Len(a_ret.val) = Len(a_prev)
        /\ \A i \in 1..Len(a_prev) :
              a_ret.val[i] = IF Writers(i - 1, a_op.name) = {} THEN a_op.default
                             ELSE <<a_log[Last(Writers(i - 1, a_op.name))].value>>
        /\ a_sites = a_prev
        /\ (a_op.name = "magmom" /\ EverySiteByIndex) =>
              \A i \in 1..Len(a_prev) :
                  \E j \in 1..Len(a_log) :
                      /\ a_log[j].sel = {i - 1} /\ a_ret.val[i] = <<a_log[j].value>>
                      /\ \A k \in (j + 1)..Len(a_log) : a_log[k].sel # {i - 1}

\* two sites assigned 2 and 1 by index, read back with another default
C21_Witness ==
    /\ a_op = Read("magmom", IntValue(0)) /\ Len(a_prev) = 2
    /\ a_log = << [sel |-> {0}, name |-> "magmom", value |-> 2],
                  [sel |-> {1}, name |-> "magmom", value |-> 1] >>
    /\ a_ret = Ok(<< <<2>>, <<1>> >>)

\* the magmom entry of the mapping passed, and the item the result holds under
\* the upper-case key
Entry == dict_get(m_dict, K_magmom)
MAGMOM == dict_get(m_ret.val, upper(K_magmom))

\* the item x of the entry selects the 0-based site i of the structure passed
Selects(x, i) ==
    CASE Entry.t = "list" ->
            /\ x.et = "dict"
            /\ i \in slice_indices(slice(IntValue(x.start), IntValue(x.stop), x.step),
                                   Len(m_sites))
      [] x.kt = "int" -> x.n = i \/ x.n + Len(m_sites) = i
      [] x.kt = "str" -> m_sites[i + 1].species = x.k

Selecting(i) == { j \in 1..Len(Entry.v) : Selects(Entry.v[j], i) }

\* the per-site list of the claim: the value of the last item that selects the
\* site, the default for a site no item selects
PerSiteList(value) ==
    /\ value.t = "magmoms"
    /\ Len(value.list) = Len(m_sites)
    /\ \A i \in 1..Len(m_sites) :
          value.list[i] = IF Selecting(i - 1) = {} THEN m_missing
                          ELSE <<Entry.v[Last(Selecting(i - 1))].val>>

FormattedValidEntry ==
    /\ m_call = "format_incar_dict" /\ m_ret.ok
    /\ has_key(m_dict, K_magmom) /\ is_valid_magmom_entry(Entry) = Ok(TRUE)

\* C22: whenever the mapping passed to format_incar_dict holds 'magmom' with a
\* valid entry (index map, species map or range list, an empty one included), the
\* result holds under 'MAGMOM' a list with one value per site: the value of the
\* last entry that selects the site, the missing default where none does.
C22_MagmomPerSite == FormattedValidEntry => PerSiteList(MAGMOM)

\* The same for the entries that hold at least one item.
MagmomPerSiteNonEmpty == (FormattedValidEntry /\ Entry.v # <<>>) => PerSiteList(MAGMOM)

\* An empty entry is passed through under the upper-case key.
EmptyEntryKept == (FormattedValidEntry /\ Entry.v = <<>>) => MAGMOM = Entry

\* the entry is non-collinear: it holds items, and all its values are vectors of
\* length k
NonCollinear(k) ==
    /\ Entry.t \in {"dict", "list"} /\ Entry.v # <<>>
    /\ \A j \in 1..Len(Entry.v) : Entry.v[j].val.vt = "list" /\ Entry.v[j].val.len = k

Zeros(k) == MVector([j \in 1..k |-> 0])

\* C23: for a non-collinear magmom entry (vectors of length k) that leaves a site
\* unset, the per-site list of IncarModel.incar holds a zero vector of length k at
\* every unset site; the list does not mix scalars and vectors.
C23_NonCollinearDefault ==
    \A k \in 1..MaxVector :
        (/\ m_call = "IncarModel.incar" /\ m_ret.ok
         /\ has_key(m_dict, K_magmom) /\ NonCollinear(k)
         /\ \E i \in 1..Len(m_sites) : Selecting(i - 1) = {})
        => /\ MAGMOM.t = "magmoms"
           /\ \A i \in 1..Len(m_sites) :
                 Selecting(i - 1) = {} => MAGMOM.list[i] = <<Zeros(k)>>
           /\ \A i \in 1..Len(m_sites) : MAGMOM.list[i][1].vt = "list"

\* What IncarModel.incar puts at a site a non-collinear entry leaves unset.
NonCollinearScalarDefault ==
    \A k \in 1..MaxVector :
        (/\ m_call = "IncarModel.incar" /\ m_ret.ok
         /\ has_key(m_dict, K_magmom) /\ NonCollinear(k))
        => /\ MAGMOM.t = "magmoms"
           /\ \A i \in 1..Len(m_sites) :
                 Selecting(i - 1) = {} => MAGMOM.list[i] = <<MScalar(0)>>

KeysOf(d) == { d[i].k : i \in 1..Len(d) }

\* C24: format_incar_dict returns a mapping whose keys are exactly the upper-case
\* forms of the keys passed; when these stay distinct, each key other than magmom
\* maps to the value passed. The mapping passed is left as it was.
C24_UpperKeys ==
    m_call = "format_incar_dict" =>
        /\ m_kept = m_dict
        /\ m_ret.ok =>
            /\ DistinctKeys(m_ret.val)
            /\ KeysOf(m_ret.val) = { upper(k) : k \in KeysOf(m_dict) }
            /\ (\A i, j \in 1..Len(m_dict) :
                    upper(m_dict[i].k) = upper(m_dict[j].k) => i = j)
               => \A i \in 1..Len(m_dict) :
                      m_dict[i].k # K_magmom =>
                          dict_get(m_ret.val, upper(m_dict[i].k)) = m_dict[i].val

\* a tag and a species map formatted for a structure of two species
C24_Witness ==
    /\ m_call = "format_incar_dict" /\ m_sites = SitesOf(<<"Fe", "O">>)
    /\ m_dict = << KeyValue(K_nsw, Tag(1)),
                   KeyValue(K_magmom, PyDict(<<MSpeciesItem("Fe", MScalar(1))>>)) >>
    /\ m_missing = MissingDefault
    /\ m_ret = Ok(<< KeyValue(upper(K_nsw), Tag(1)),
                     KeyValue(upper(K_magmom),
                              Magmoms(<< <<MScalar(1)>>, <<MScalar(0)>> >>)) >>)
    /\ m_kept = m_dict

(***************************************************************************)
(* Claims about the scheduler                                              *)
(***************************************************************************)
\* the conditions on the scheduler and on the directive mapping
SchedulerNamed == j_sched \in {S_pbs, S_slurm}
ShebangGiven ==
    /\ has_key(j_dict, "shebang") /\ dict_get(j_dict, "shebang").t = "str"
    /\ startswith(dict_get(j_dict, "shebang").v[1].text, HashBang)
ScriptGiven ==
    /\ has_key(j_dict, "script") /\ dict_get(j_dict, "script").t = "list"
    /\ \A i \in 1..Len(dict_get(j_dict, "script").v) :
          dict_get(j_dict, "script").v[i].et = "str"
ResourceGiven == has_key(j_dict, "cores") \/ has_key(j_dict, "memory")
JobConditions == SchedulerNamed /\ ShebangGiven /\ ScriptGiven /\ ResourceGiven

ValidationErrors ==
    { "ValidationError: Scheduler must be either 'pbs' or 'slurm'",
      "ValidationError: Shebang must start with '#!'",
      "ValidationError: Script must be a list of strings.",
      "ValidationError: Job must specify at least 'cores' and 'memory'." }

\* C25: constructing a Job succeeds only if the scheduler is 'pbs' or 'slurm',
\* the shebang starts with '#!', the script is a list of strings and one of cores
\* and memory is given; if a condition fails, construction raises a validation
\* error and no job object is created.
C25_JobValidation ==
    j_call = "Job" =>
        /\ j_ret.ok => JobConditions
        /\ ~JobConditions =>
              ~j_ret.ok /\ j_ret.err \in ValidationErrors /\ j_job = NoJob

\* The same for a shebang that is a string or is left out.
JobValidationOfStrings ==
    (j_call = "Job" /\ dict_get(j_dict, "shebang").t \in {"str", "none"}) =>
        /\ j_ret.ok => JobConditions
        /\ ~JobConditions =>
              ~j_ret.ok /\ j_ret.err \in ValidationErrors /\ j_job = NoJob

\* A failed condition never leaves a job object, whatever the error is.
JobConditionsNeeded == (j_call = "Job" /\ ~JobConditions) => ~j_ret.ok /\ j_job = NoJob

\* the nodes given in the extra parameters: none (<<>>) or <<N>>
NodesGiven ==
    IF dict_get(j_extra, "nodes").t = "int" THEN <<dict_get(j_extra, "nodes").v[1].n>>
    ELSE <<>>

ExtraDirectives(job_parameters) ==
    IF has_key(job_parameters, "job_extra_directives")
    THEN dict_get(job_parameters, "job_extra_directives").v
    ELSE <<>>

\* the call returned the mapping with one directive more, at the end
AppendedOnly(text) ==
    /\ j_ret.ok /\ j_ret.val = j_after
    /\ ExtraDirectives(j_after) = Append(ExtraDirectives(j_params), [text |-> text])
    /\ KeysOf(j_after) = KeysOf(j_params) \cup {"job_extra_directives"}
    /\ \A k \in KeysOf(j_params) \ {"job_extra_directives"} :
          dict_get(j_after, k) = dict_get(j_params, k)

NodesAppended ==
    /\ (NodesGiven # <<>> /\ lower(j_sched) = S_slurm)
          => AppendedOnly("--nodes=" \o ToString(NodesGiven[1]))
    /\ (NodesGiven # <<>> /\ lower(j_sched) = S_pbs)
          => AppendedOnly("-l nodes=" \o ToString(NodesGiven[1]))
    /\ NodesGiven = <<>> => j_ret = Ok(j_params) /\ j_after = j_params

\* C26 as stated: with nodes = N, update_job_parameters_with_nodes appends one
\* directive ('--nodes=N' for slurm, '-l nodes=N' for pbs) to the end of
\* job_extra_directives and changes nothing else; without nodes it returns the
\* job parameters unchanged; for a scheduler other than slurm or pbs it raises.
C26_NodesDirective ==
    j_call = "update_job_parameters_with_nodes" =>
        /\ NodesAppended
        /\ lower(j_sched) \notin {S_slurm, S_pbs} => ~j_ret.ok

\* C26: with nodes = N, update_job_parameters_with_nodes appends one directive
\* ('--nodes=N' for slurm, '-l nodes=N' for pbs, in any letter case) to the end
\* of job_extra_directives and changes nothing else; without nodes it returns the
\* job parameters unchanged, whatever the scheduler; with nodes = N and another
\* scheduler it raises and changes nothing.
C26_NodesWhenGiven ==
    j_call = "update_job_parameters_with_nodes" =>
        /\ NodesAppended
        /\ (NodesGiven # <<>> /\ lower(j_sched) \notin {S_slurm, S_pbs})
              => ~j_ret.ok /\ j_after = j_params

\* two nodes for SLURM, after a directive that was there
C26_Witness ==
    /\ j_call = "update_job_parameters_with_nodes" /\ j_sched = upper(S_slurm)
    /\ j_params = << KeyValue("cores", Tag(4)),
                     KeyValue("job_extra_directives", Directives(<<"--exclusive">>)) >>
    /\ j_extra = <<KeyValue("nodes", Tag(2))>>
    /\ j_ret = Ok(<< KeyValue("cores", Tag(4)),
                     KeyValue("job_extra_directives",
                              Directives(<<"--exclusive", "--nodes=2">>)) >>)

(***************************************************************************)
(* Claims about the structure checker                                      *)
(***************************************************************************)
\* every two distinct sites are at least 0.5 apart
WellSeparated ==
    \A i, j \in 1..Len(q_atoms) :
        i # j => distance2(q_atoms, i, j) >= CloseUnits * CloseUnits

\* C27: the position check reports no message for a structure in which every
\* pair of distinct sites is at least 0.5 apart, and exactly one message for a
\* structure of two sites that coincide.
C27_CheckPositions ==
    q_calls = 1 =>
        /\ WellSeparated => q_ret = Ok(<<>>)
        /\ (Len(q_atoms) = 2 /\ distance2(q_atoms, 1, 2) = 0) => Len(q_ret.val) = 1

\* What the first check reports: one message for every ordered pair of sites
\* closer than 0.5, a site paired with itself included.
MessagePerOrderedPair ==
    q_calls = 1 =>
        /\ q_ret.ok
        /\ Len(q_ret.val) =
              Cardinality({ c \in (1..Len(q_atoms)) \X (1..Len(q_atoms)) :
                              distance2(q_atoms, c[1], c[2]) < CloseUnits * CloseUnits })
        /\ \A i \in 1..Len(q_atoms) :
              \E m \in 1..Len(q_ret.val) : q_ret.val[m].i = i - 1 /\ q_ret.val[m].j = i - 1

(***************************************************************************)
(* Claims about validate_internal_mode                                     *)
(***************************************************************************)
ManualKeys == { manual_set[n] : n \in 1..Len(manual_set) }
PrototypeKeys == { prototype_set[n] : n \in 1..Len(prototype_set) }
ManualComplete == ManualKeys \subseteq v_in
PrototypeComplete == PrototypeKeys \subseteq v_in
PartlyPresent(field_set) == v_in \cap field_set # {} /\ ~(field_set \subseteq v_in)

\* C28: validate_internal_mode returns True for an input set that contains all
\* of exactly one field set (manual or prototype) and not all of the other, and
\* raises an error when both sets are complete, when no key of either set is
\* present, or when a set is only partly present.
C28_InternalMode ==
    v_pc = "done" =>
        /\ (ManualComplete /\ ~PrototypeComplete) \/ (PrototypeComplete /\ ~ManualComplete)
               => v_ret = Ok(PyTrue)
        /\ (ManualComplete /\ PrototypeComplete) => ~v_ret.ok
        /\ v_in \cap (ManualKeys \cup PrototypeKeys) = {} => ~v_ret.ok
        /\ (~ManualComplete /\ ~PrototypeComplete
               /\ (PartlyPresent(ManualKeys) \/ PartlyPresent(PrototypeKeys))) => ~v_ret.ok

\* What the function does: it raises for every input set.  A complete manual set
\* is rejected for its missing prototype, a complete prototype set for its
\* missing coords, because the two sets share lattice and species.
InternalModeAlwaysRaises ==
    v_pc = "done" =>
        /\ ~v_ret.ok
        /\ (ManualComplete /\ ~PrototypeComplete) =>
               v_ret = Raise("ValueError: Structure input set must contain lattice, species, and prototype")
        /\ (PrototypeComplete /\ ~ManualComplete) =>
               v_ret = Raise("ValueError: Structure input set must contain lattice, species, and coords")

SectionPresent(name) == get(w_doc, name).k = "dict"

\* the files of the present sections among the first k of the fixed order
FilesOfFirst(k) ==
    LET present == SelectSeq(SubSeq(SectionOrder, 1, k), SectionPresent)
    IN  [f \in 1..Len(present) |-> file_name(present[f])]

PositionOf(name) == CHOOSE p \in 1..Len(SectionOrder) : SectionOrder[p] = name

\* C30: write_inputs handles structure, incar, kpoints in this order and writes
\* POSCAR, INCAR, KPOINTS only for sections present in the document; an error in
\* a later section leaves the files of the earlier present sections written and
\* none of the later ones.
C30_WriteInputs ==
    /\ w_pc \in {"structure", "incar", "kpoints"} =>
          w_files = FilesOfFirst(PositionOf(w_pc) - 1)
    /\ w_pc = "done" => w_res.ok /\ w_files = FilesOfFirst(Len(SectionOrder))
    /\ w_pc = "failed" =>
          /\ ~w_res.ok /\ SectionPresent(w_at)
          /\ w_files = FilesOfFirst(PositionOf(w_at) - 1)

\* POSCAR and INCAR are written and then the kpoints section fails
C30_Witness ==
    /\ w_pc = "failed" /\ w_at = "kpoints"
    /\ w_files = <<"POSCAR", "INCAR">>

\* all three files are written, in order
AllFilesWritten == w_pc = "done" /\ w_files = <<"POSCAR", "INCAR", "KPOINTS">>

Init == KInit \/ SInit \/ FInit \/ CInit \/ PInit \/ AInit \/ RInit \/ IInit \/ MInit \/ JInit \/ QInit \/ VInit \/ DInit \/ WInit
Next == KNext \/ SNext \/ FNext \/ CNext \/ PNext \/ ANext \/ RNext \/ INext \/ MNext \/ JNext \/ QNext \/ VNext \/ DNext \/ WNext
Spec == Init /\ [][Next]_vars
====
